---- MODULE Spec2Model ----
(***************************************************************************)
(* Model of the chart extraction and forecast core of                      *)
(* insights-plus-for-github-projects.                                      *)
(*                                                                         *)
(* Time is counted in ticks, TicksPerDay ticks to the day (the code counts *)
(* milliseconds, 86 400 000 to the day).  A JavaScript number is an        *)
(* integer or the value NaN; a nullable field is Null (<<>>) or Some(v)    *)
(* (<<v>>).  A rate is the fraction num/den with den > 0.                  *)
(***************************************************************************)
EXTENDS Integers, Sequences, FiniteSets, TLC

VARIABLES
    pc,              \* position of the call under study: "ready" | "done"
    now,             \* the clock read by new Date()
    completedData,   \* calculateVelocity: argument completedData
    startDate,       \* calculateVelocity: argument startDate
    startValue,      \* calculateVelocity: argument startValue
    lookbackDays,    \* calculateVelocity: argument lookbackDays
    velocityResult,  \* calculateVelocity: returned VelocityResult
    chartData,       \* calculatePrediction: argument data (total, completed)
    currentVelocity, \* calculatePrediction: argument currentVelocity
    dueDate,         \* calculatePrediction: argument dueDate
    prediction,      \* calculatePrediction: returned Prediction
    pathD,           \* path interpreter: the attribute d, as commands
    plotBox,         \* path interpreter: the plot rectangle
    allPoints,       \* parsePathData: the points the path visits
    lastValidPoint,  \* extractLastPointFromPath: returned pixel
    document,        \* the page: its chart root svg and its text
    zoneEast,        \* whether the local time zone lies east of Greenwich
    chartResult,     \* extractFromSVG: what the call returned or threw
    markerValues,    \* extractValuesFromPointMarkers: returned values
    chartType,       \* detectChartType: returned label
    axisLabels,      \* extractDateRangeFromLabels: argument xDates
    labelRange,      \* extractDateRangeFromLabels: returned DateRange
    secondResult,    \* extractFromSVG: what a second call returned or threw
    injector,        \* injectBridgeScript: which of the two versions runs
    promise,         \* injectBridgeScript: the returned promise
    resolved,        \* injectBridgeScript: the flag resolved (request version)
    heldData,        \* injectBridgeScript: the variable chartData (script version)
    listening,       \* injectBridgeScript: the once-listener is still registered
    requestsSent,    \* injectBridgeScript: requests issued so far
    responseLog,     \* response events dispatched since the call, in order
    attempts,        \* waitAndSend: the counter attempts
    retryPending,    \* waitAndSend: a setTimeout(attempt) is outstanding
    elapsedMs,       \* waitAndSend: time since the call, in milliseconds
    dispatched,      \* waitAndSend: the response events it dispatched
    sendThrew,       \* waitAndSend: sendData ended with an exception
    presentAt,       \* the attempts at which series or point markup was present
    currentIterations,    \* calculateAverageVelocity: argument iterations
    currentSelectedNames, \* calculateAverageVelocity: argument selectedNames
    averageResult,   \* calculateAverageVelocity: returned AverageResult
    storage,         \* chrome.storage.local: the value under the lookback key
    lookbackRead,    \* getLookbackDays: how the last call settled
    lastSet,         \* setLookbackDays: argument and outcome of the last call
    settingsCalls,   \* calls of setLookbackDays made so far
    openValue,       \* getOpenValueAtEndDate: returned value
    completedPoints, \* getCompletedDataPoints: returned pair of points
    containerPresent, \* the page holds an element .highcharts-container
    waitedMs,        \* waitForHighcharts: Date.now() - startTime
    checkPending,    \* waitForHighcharts: a setTimeout(check) is outstanding
    checkTimes,      \* waitForHighcharts: the times at which check ran
    foundAtChecks,   \* the check times at which the container was present
    settleLog,       \* waitForHighcharts: the values resolve was called with
    storedSettings,  \* chrome.storage.local: lookback days and target date, as versions
    listenerOn,      \* initializeBurnup: the storage listener is registered
    runs,            \* the calls of recalculate, each with its position and what it read
    readQueue,       \* the runs waiting for a storage read, in the order of their requests
    shown,           \* what the stats panel and the overlay display
    changesMade,     \* changes of the settings since the panel exists
    changesHeard,    \* changes for which the listener called recalculate
    bridgePending,   \* updateChartInfoAndRedraw: re-extractions awaiting the bridge
    resizesSeen,     \* width changes the ResizeObserver reported
    chartInfoVersion, \* chartData.chartInfo, as the number of its extraction
    chartFields,     \* the other fields of chartData, startDate and startValue, likewise
    lastAnswer,      \* updateChartInfoAndRedraw: the last answer of the bridge
    pageUrl,         \* window.location.href, as the number of the URL
    lastUrl,         \* main: the URL the MutationObserver saw last
    isInitialized,   \* main: the flag of initialize
    loadPending,     \* main: the load listener has not fired yet
    initTimers,      \* main: setTimeout(initialize, 300) not yet fired
    initRuns,        \* the runs of initialize, each with its URL and position
    placeholderShown, \* the loading placeholder is in the page
    panelOf,         \* the run whose panel and overlay are in the page, or null
    creations,       \* every panel created: the URL of its run and the page's URL then
    rowChecked,      \* velocity panel: the checked state of the checkbox of each row
    selectAllBox,    \* velocity panel: the select-all checkbox
    savedSelections, \* chrome.storage.local: velocitySelectedIterations
    togglesDone      \* velocity panel: the change events handled

velocityVars == <<completedData, startDate, startValue, lookbackDays, velocityResult>>
predictionVars == <<chartData, currentVelocity, dueDate, prediction>>
pathVars == <<pathD, plotBox, allPoints, lastValidPoint>>
svgVars == <<document, zoneEast, chartResult, markerValues, chartType, axisLabels, labelRange>>
repeatVars == <<secondResult>>
handoffVars == <<injector, promise, resolved, heldData, listening, requestsSent, responseLog>>
pollVars == <<attempts, retryPending, elapsedMs, dispatched, sendThrew, presentAt>>
averageVars == <<currentIterations, currentSelectedNames, averageResult>>
settingsVars == <<storage, lookbackRead, lastSet, settingsCalls>>
processorVars == <<openValue, completedPoints>>
waiterVars == <<containerPresent, waitedMs, checkPending, checkTimes, foundAtChecks, settleLog>>
recalcVars == <<storedSettings, listenerOn, runs, readQueue, shown, changesMade, changesHeard,
                bridgePending, resizesSeen, chartInfoVersion, chartFields, lastAnswer>>
contentVars == <<pageUrl, lastUrl, isInitialized, loadPending, initTimers, initRuns,
                 placeholderShown, panelOf, creations>>
panelVars == <<rowChecked, selectAllBox, savedSelections, togglesDone>>
lateVars == <<waiterVars, recalcVars, contentVars, panelVars>>
earlyVars == <<repeatVars, handoffVars, pollVars, averageVars, settingsVars, processorVars>>
extraVars == <<earlyVars, lateVars>>
coreVars == <<velocityVars, predictionVars, pathVars, svgVars, earlyVars>>
otherThanWaiter == <<coreVars, recalcVars, contentVars, panelVars>>
otherThanRecalc == <<coreVars, waiterVars, contentVars, panelVars>>
otherThanContent == <<coreVars, waiterVars, recalcVars, panelVars>>
otherThanPanel == <<velocityVars, predictionVars, pathVars, svgVars, repeatVars, handoffVars,
                    pollVars, settingsVars, processorVars, waiterVars, recalcVars, contentVars>>
vars == <<pc, now, velocityVars, predictionVars, pathVars, svgVars, extraVars>>

(***************************************************************************)
(* Values                                                                  *)
(***************************************************************************)
Null == <<>>
Some(v) == <<v>>
IsNull(o) == o = Null
Val(o) == o[1]

NaN == 0 - 999999
isNaN(x) == x = NaN

Rat(n, d) == [num |-> n, den |-> d]
RatEq(a, b) == a.num * b.den = b.num * a.den
RatPositive(a) == a.num > 0

TicksPerDay == 2

\* new Date(y, m, d, 23, 59, 59, 999): the last tick of the day holding t
EndOfDay(t) == (t \div TicksPerDay) * TicksPerDay + (TicksPerDay - 1)

(***************************************************************************)
(* Sequences                                                               *)
(***************************************************************************)
Reverse(s) == [i \in 1..Len(s) |-> s[Len(s) + 1 - i]]

\* Array.prototype.sort((a, b) => a.date - b.date): stable, ascending by date
RECURSIVE InsertByDate(_, _)
InsertByDate(s, p) ==
    IF s = <<>> THEN <<p>>
    ELSE IF p.date < Head(s).date THEN <<p>> \o s
         ELSE <<Head(s)>> \o InsertByDate(Tail(s), p)

RECURSIVE SortByDate(_)
SortByDate(s) ==
    IF s = <<>> THEN <<>>
    ELSE InsertByDate(SortByDate(SubSeq(s, 1, Len(s) - 1)), s[Len(s)])

\* sortedData.find(p => p.date < t): the first point dated before t, or Null
FindBefore(s, t) ==
    LET hits == { i \in 1..Len(s) : s[i].date < t }
    IN  IF hits = {} THEN Null
        ELSE Some(s[CHOOSE i \in hits : \A j \in hits : i <= j])

(***************************************************************************)
(* velocity-calculator: calculateVelocity                                  *)
(***************************************************************************)
InvalidDate == NaN

NullVelocity ==
    [current |-> Null, periodStartDate |-> Null, periodEndDate |-> Null,
     periodStartValue |-> Null, periodEndValue |-> Null]

IsValidPoint(p) == ~isNaN(p.date) /\ ~isNaN(p.value)

\* for (const point of sortedData) { if (date <= todayEnd) latest = point; else break; }
RECURSIVE LatestLoop(_, _, _)
LatestLoop(s, todayEnd, latest) ==
    IF s = <<>> THEN latest
    ELSE IF Head(s).date <= todayEnd
         THEN LatestLoop(Tail(s), todayEnd, Some(Head(s)))
         ELSE latest

LatestPoint(sortedData, todayEnd) ==
    LET found == LatestLoop(sortedData, todayEnd, Null)
    IN  IF IsNull(found) THEN sortedData[1] ELSE Val(found)

\* the window counted back from the latest observation instead of from the
\* end of today
RecentPoints_FromLatest(sortedData, todayEnd, lookback) ==
    LET latestDate == LatestPoint(sortedData, todayEnd).date
        inWindow(p) == p.date >= latestDate - lookback * TicksPerDay /\ p.date <= latestDate
    IN  SelectSeq(sortedData, inWindow)

RecentPoints(sortedData, todayEnd, lookback) ==
    LET lookbackDate == todayEnd - lookback * TicksPerDay
        inWindow(p) == p.date >= lookbackDate /\ p.date <= todayEnd
    IN  SelectSeq(sortedData, inWindow)

\* the guard written velocity >= 0
PositiveOrNull_AllowZero(v) == IF v.num >= 0 THEN Some(v) ELSE Null

\* velocity !== null && velocity > 0 ? velocity : null
PositiveOrNull(v) == IF RatPositive(v) THEN Some(v) ELSE Null

\* the fallback measuring progress from zero instead of from startValue
AllTimeVelocity_FromZero(latestPoint, sDate, sValue) ==
    LET totalTicks == latestPoint.date - sDate
    IN  IF totalTicks <= 0 THEN NullVelocity
        ELSE [current |-> PositiveOrNull(Rat(latestPoint.value * TicksPerDay, totalTicks)),
              periodStartDate |-> Some(sDate),
              periodEndDate |-> Some(latestPoint.date),
              periodStartValue |-> Some(sValue),
              periodEndValue |-> Some(latestPoint.value)]

\* the fallback whose early return keeps the start of the period
AllTimeVelocity_KeepsStart(latestPoint, sDate, sValue) ==
    LET totalTicks == latestPoint.date - sDate
        totalProgress == latestPoint.value - sValue
    IN  IF totalTicks <= 0
        THEN [NullVelocity EXCEPT !.periodStartDate = Some(sDate),
                                  !.periodStartValue = Some(sValue)]
        ELSE [current |-> PositiveOrNull(Rat(totalProgress * TicksPerDay, totalTicks)),
              periodStartDate |-> Some(sDate),
              periodEndDate |-> Some(latestPoint.date),
              periodStartValue |-> Some(sValue),
              periodEndValue |-> Some(latestPoint.value)]

AllTimeVelocity(latestPoint, sDate, sValue) ==
    LET totalTicks == latestPoint.date - sDate
        totalProgress == latestPoint.value - sValue
    IN  IF totalTicks <= 0 THEN NullVelocity
        ELSE [current |-> PositiveOrNull(Rat(totalProgress * TicksPerDay, totalTicks)),
              periodStartDate |-> Some(sDate),
              periodEndDate |-> Some(latestPoint.date),
              periodStartValue |-> Some(sValue),
              periodEndValue |-> Some(latestPoint.value)]

PeriodStartValue(sortedData, firstRecentPoint, periodStartDate, sDate, sValue) ==
    IF firstRecentPoint.date < sDate THEN sValue
    ELSE LET pointBeforePeriod == FindBefore(sortedData, periodStartDate)
         IN  IF ~IsNull(pointBeforePeriod) THEN Val(pointBeforePeriod).value
             ELSE firstRecentPoint.value

WindowedVelocity(sortedData, recentPoints, sDate, sValue) ==
    LET firstRecentPoint == recentPoints[1]
        lastRecentPoint == recentPoints[Len(recentPoints)]
        periodStartDate == IF firstRecentPoint.date < sDate THEN sDate
                           ELSE firstRecentPoint.date
        periodStartValue == PeriodStartValue(sortedData, firstRecentPoint,
                                             periodStartDate, sDate, sValue)
        ticksDiff == lastRecentPoint.date - periodStartDate
        progress == lastRecentPoint.value - periodStartValue
    IN  IF ticksDiff <= 0 THEN NullVelocity
        ELSE [current |-> PositiveOrNull(Rat(progress * TicksPerDay, ticksDiff)),
              periodStartDate |-> Some(periodStartDate),
              periodEndDate |-> Some(lastRecentPoint.date),
              periodStartValue |-> Some(periodStartValue),
              periodEndValue |-> Some(lastRecentPoint.value)]

calculateVelocity(data, sDate, sValue, lookback, nowT) ==
    IF Len(data) = 0 THEN NullVelocity
    ELSE LET todayEnd == EndOfDay(nowT)
             sortedData == SortByDate(SelectSeq(data, IsValidPoint))
         IN  IF Len(sortedData) = 0 THEN NullVelocity
             ELSE LET latestPoint == LatestPoint(sortedData, todayEnd)
                      recentPoints == RecentPoints(sortedData, todayEnd, lookback)
                  IN  IF Len(recentPoints) < 2
                      THEN AllTimeVelocity(latestPoint, sDate, sValue)
                      ELSE WindowedVelocity(sortedData, recentPoints, sDate, sValue)

(***************************************************************************)
(* prediction-calculator: calculatePrediction                              *)
(***************************************************************************)
Max(a, b) == IF a >= b THEN a ELSE b

\* Math.round(n / d) for d > 0: the nearest integer, halves rounded up
RoundDiv(n, d) == (2 * n + d) \div (2 * d)

\* remaining without the clamp at zero
Remaining_NoClamp(data) == data.total - data.completed

\* Math.max(0, data.total - data.completed)
Remaining(data) == Max(0, data.total - data.completed)

\* the verdict written daysAhead > 0
OnTrack_Strict(daysAhead) == daysAhead > 0

\* isOnTrack = daysAhead >= 0
OnTrack(daysAhead) == daysAhead >= 0

\* new Date(today.getTime() + (remaining / currentVelocity) * MS_PER_DAY):
\* the time value of a Date is cut to a whole tick
CompletionDate(remaining, velocity, today) ==
    IF ~IsNull(velocity) /\ Val(velocity).num > 0
    THEN Some(today + (remaining * Val(velocity).den * TicksPerDay) \div Val(velocity).num)
    ELSE Null

calculatePrediction(data, velocity, due, today) ==
    LET remaining == Remaining(data)
    IN  IF remaining = 0
        THEN [completionDate |-> Some(today),
              dueDate |-> due,
              idealVelocity |-> Some(Rat(0, 1)),
              isOnTrack |-> Some(TRUE),
              daysAhead |-> IF ~IsNull(due)
                            THEN Some(RoundDiv(Val(due) - today, TicksPerDay))
                            ELSE Null]
        ELSE LET completionDate == CompletionDate(remaining, velocity, today)
                 ticksUntilDue == Val(due) - today
                 daysAhead == RoundDiv(Val(due) - Val(completionDate), TicksPerDay)
                 judged == ~IsNull(due) /\ ~IsNull(completionDate)
             IN  [completionDate |-> completionDate,
                  dueDate |-> due,
                  idealVelocity |-> IF ~IsNull(due) /\ ticksUntilDue > 0
                                    THEN Some(Rat(remaining * TicksPerDay, ticksUntilDue))
                                    ELSE Null,
                  isOnTrack |-> IF judged THEN Some(OnTrack(daysAhead)) ELSE Null,
                  daysAhead |-> IF judged THEN Some(daysAhead) ELSE Null]

NullPrediction ==
    [completionDate |-> Null, dueDate |-> Null, idealVelocity |-> Null,
     isOnTrack |-> Null, daysAhead |-> Null]

PredictionIdle ==
    /\ chartData = [total |-> 0, completed |-> 0]
    /\ currentVelocity = Null
    /\ dueDate = Null
    /\ prediction = NullPrediction

SvgIdle ==
    /\ document = [svg |-> Null, pageText |-> [form |-> "none"]]
    /\ zoneEast = FALSE
    /\ chartResult = [outcome |-> "none", value |-> Null]
    /\ markerValues = [open |-> Null, completed |-> Null]
    /\ chartType = "unknown"
    /\ axisLabels = <<>>
    /\ labelRange = Null

PathIdle ==
    /\ pathD = <<>>
    /\ plotBox = [plotLeft |-> 0, plotTop |-> 0, plotWidth |-> 0, plotHeight |-> 0]
    /\ allPoints = <<>>
    /\ lastValidPoint = Null

VelocityIdle ==
    /\ completedData = <<>>
    /\ startDate = 0
    /\ startValue = 0
    /\ lookbackDays = 1
    /\ velocityResult = NullVelocity

RepeatIdle ==
    /\ secondResult = [outcome |-> "none", value |-> Null]

HandoffIdle ==
    /\ injector = "request"
    /\ promise = [state |-> "pending", value |-> Null]
    /\ resolved = FALSE
    /\ heldData = Null
    /\ listening = FALSE
    /\ requestsSent = 0
    /\ responseLog = <<>>

PollIdle ==
    /\ attempts = 0
    /\ retryPending = FALSE
    /\ elapsedMs = 0
    /\ dispatched = <<>>
    /\ sendThrew = FALSE
    /\ presentAt = {}

NoAverage == [average |-> Null, count |-> 0, total |-> 0, selectedIterations |-> <<>>]

AverageIdle ==
    /\ currentIterations = <<>>
    /\ currentSelectedNames = <<>>
    /\ averageResult = NoAverage

\* a value of JavaScript with its typeof; a number is counted in units of
\* 1/ValueScale or is NaN
Undefined == [type |-> "undefined", val |-> 0]
JsNumber(n) == [type |-> "number", val |-> n]
JsString(text) == [type |-> "string", val |-> text]

SettingsIdle ==
    /\ storage = Undefined
    /\ lookbackRead = [outcome |-> "none", value |-> Undefined]
    /\ lastSet = [days |-> Undefined, outcome |-> "none", wrote |-> FALSE]
    /\ settingsCalls = 0

ProcessorIdle ==
    /\ openValue = Null
    /\ completedPoints = [first |-> Null, today |-> Null]

WaiterIdle ==
    /\ containerPresent = FALSE
    /\ waitedMs = 0
    /\ checkPending = FALSE
    /\ checkTimes = {}
    /\ foundAtChecks = {}
    /\ settleLog = <<>>

RecalcIdle ==
    /\ storedSettings = [lookback |-> 0, target |-> 0]
    /\ listenerOn = FALSE
    /\ runs = <<>>
    /\ readQueue = <<>>
    /\ shown = Null
    /\ changesMade = 0
    /\ changesHeard = 0
    /\ bridgePending = 0
    /\ resizesSeen = 0
    /\ chartInfoVersion = 0
    /\ chartFields = <<>>
    /\ lastAnswer = <<>>

ContentIdle ==
    /\ pageUrl = 0
    /\ lastUrl = 0
    /\ isInitialized = FALSE
    /\ loadPending = FALSE
    /\ initTimers = 0
    /\ initRuns = <<>>
    /\ placeholderShown = FALSE
    /\ panelOf = Null
    /\ creations = {}

PanelIdle ==
    /\ rowChecked = <<>>
    /\ selectAllBox = [checked |-> FALSE, indeterminate |-> FALSE]
    /\ savedSelections = <<>>
    /\ togglesDone = 0

LateIdle ==
    /\ WaiterIdle
    /\ RecalcIdle
    /\ ContentIdle
    /\ PanelIdle

EarlyIdle ==
    /\ RepeatIdle
    /\ HandoffIdle
    /\ PollIdle
    /\ AverageIdle
    /\ SettingsIdle
    /\ ProcessorIdle

\* the variables of the operations a specification does not exercise
ExtraIdle ==
    /\ EarlyIdle
    /\ LateIdle

CoreIdle ==
    /\ VelocityIdle
    /\ PredictionIdle
    /\ PathIdle
    /\ SvgIdle
    /\ EarlyIdle

OtherThanWaiterIdle ==
    /\ CoreIdle
    /\ RecalcIdle
    /\ ContentIdle
    /\ PanelIdle

OtherThanRecalcIdle ==
    /\ CoreIdle
    /\ WaiterIdle
    /\ ContentIdle
    /\ PanelIdle

OtherThanContentIdle ==
    /\ CoreIdle
    /\ WaiterIdle
    /\ RecalcIdle
    /\ PanelIdle

OtherThanPanelIdle ==
    /\ VelocityIdle
    /\ PredictionIdle
    /\ PathIdle
    /\ SvgIdle
    /\ RepeatIdle
    /\ HandoffIdle
    /\ PollIdle
    /\ SettingsIdle
    /\ ProcessorIdle
    /\ WaiterIdle
    /\ RecalcIdle
    /\ ContentIdle

(***************************************************************************)
(* svg-extractor: text of the markup                                       *)
(*                                                                         *)
(* An aria-label is kept as its parts: "<head>, <num>. <tail>." where the  *)
(* head is a date "<mon> <day>[ <year>]" (headKind "date"), a date in the  *)
(* Japanese form "<m>gatsu <day>" (headKind "jpdate") or a name (headKind     *)
(* "name"); num is the run of digits and dots before ". " as a sequence of *)
(* characters (<<>> when the label holds no such number); tail is the word *)
(* that follows.  The year is Null when the text has none.  "kanryo" and   *)
(* "opun" stand for the Japanese words for completed and open.  Numbers    *)
(* read from text are counted in units of 1/ValueScale; PosInf, NegInf and *)
(* NaN stand for Infinity, -Infinity and NaN.                              *)
(***************************************************************************)
ValueScale == 10
EpochYear == 2025
PosInf == 999998
NegInf == 0 - PosInf

MONTH_NAME_TO_NUMBER ==
    [jan |-> 0, feb |-> 1, mar |-> 2, apr |-> 3, may |-> 4, jun |-> 5,
     jul |-> 6, aug |-> 7, sep |-> 8, oct |-> 9, nov |-> 10, dec |-> 11]

\* String.prototype.toLowerCase on the words the markup uses
ToLower(w) ==
    CASE w = "Jan" -> "jan" [] w = "Feb" -> "feb" [] w = "Mar" -> "mar"
      [] w = "Nov" -> "nov" [] w = "Dec" -> "dec" [] w = "DEC" -> "dec"
      [] w = "Completed" -> "completed" [] w = "COMPLETED" -> "completed"
      [] w = "Open" -> "open" [] w = "OPEN" -> "open"
      [] w = "Xyz" -> "xyz"
      [] OTHER -> w

CumulativeDays == <<0, 31, 59, 90, 120, 151, 181, 212, 243, 273, 304, 334>>

\* new Date(year, month, day).getTime(): local midnight; a day past the end
\* of the month runs on into the next one
DateToTick(year, month, day) ==
    ((year - EpochYear) * 365 + CumulativeDays[month + 1] + (day - 1)) * TicksPerDay

\* Date.prototype.getFullYear
FullYear(t) == EpochYear + (t \div TicksPerDay) \div 365

Digits == {"0", "1", "2", "3", "4", "5", "6", "7", "8", "9"}
DigitValue(c) ==
    CASE c = "0" -> 0 [] c = "1" -> 1 [] c = "2" -> 2 [] c = "3" -> 3 [] c = "4" -> 4
      [] c = "5" -> 5 [] c = "6" -> 6 [] c = "7" -> 7 [] c = "8" -> 8 [] c = "9" -> 9

\* the length of the longest run of digits at the front of tok
RECURSIVE DigitRun(_)
DigitRun(tok) ==
    IF tok # <<>> /\ Head(tok) \in Digits THEN 1 + DigitRun(Tail(tok)) ELSE 0

RECURSIVE DigitsValue(_, _)
DigitsValue(tok, acc) ==
    IF tok = <<>> THEN acc ELSE DigitsValue(Tail(tok), acc * 10 + DigitValue(Head(tok)))

\* parseFloat of a run of digits and dots: the longest leading
\* <digits>[.<digits>] or .<digits>, NaN when there is none; the value is
\* kept to one decimal
parseFloat(tok) ==
    LET n == DigitRun(tok)
        rest == SubSeq(tok, n + 1, Len(tok))
        f == IF rest # <<>> /\ Head(rest) = "." THEN DigitRun(Tail(rest)) ELSE 0
    IN  IF n = 0 /\ f = 0 THEN NaN
        ELSE DigitsValue(SubSeq(tok, 1, n), 0) * ValueScale
               + (IF f > 0 THEN DigitValue(rest[2]) ELSE 0)

\* (Open|Completed|<opun>|<kanryo>) under the flag i, right after ". "
RoleWord(tail) ==
    IF ToLower(tail) \in {"open", "completed", "opun", "kanryo"}
    THEN Some(ToLower(tail)) ELSE Null

\* ariaLabel.match(/,\s*([\d.]+)\.\s+(Open|Completed|<opun>|<kanryo>)/i)
ValueMatch(label) ==
    IF label.num # <<>> /\ ~IsNull(RoleWord(label.tail))
    THEN Some([value |-> parseFloat(label.num), type |-> Val(RoleWord(label.tail))])
    ELSE Null

\* ariaLabel.match(/^([A-Za-z]{3})\s+(\d{1,2})(?:\s+(\d{4}))?/) and the Date
\* built from it: Null without a match or for an unknown month name
MarkerDate(label, nowT) ==
    IF label.headKind # "date" THEN Null
    ELSE LET monthName == ToLower(label.mon)
             year == IF ~IsNull(label.year) THEN Val(label.year) ELSE FullYear(nowT)
         IN  IF monthName \in DOMAIN MONTH_NAME_TO_NUMBER
             THEN Some(DateToTick(year, MONTH_NAME_TO_NUMBER[monthName], label.day))
             ELSE Null

(***************************************************************************)
(* svg-extractor: arithmetic on numbers that may be NaN or infinite        *)
(***************************************************************************)
IsFinite(a) == a \notin {NaN, PosInf, NegInf}
Sign(a) == IF a > 0 THEN 1 ELSE IF a < 0 THEN 0 - 1 ELSE 0
Infinite(sign) == IF sign > 0 THEN PosInf ELSE NegInf

\* a + b
Plus(a, b) ==
    IF isNaN(a) \/ isNaN(b) THEN NaN
    ELSE IF IsFinite(a) /\ IsFinite(b) THEN a + b
    ELSE IF IsFinite(a) THEN b
    ELSE IF IsFinite(b) \/ a = b THEN a
    ELSE NaN

\* a - b
Minus(a, b) ==
    IF isNaN(b) THEN NaN
    ELSE IF IsFinite(b) THEN Plus(a, 0 - b)
    ELSE Plus(a, Infinite(0 - Sign(b)))

\* a > b: false as soon as one side is NaN
Greater(a, b) == ~isNaN(a) /\ ~isNaN(b) /\ a > b

\* Math.round of a number counted in units of 1/ValueScale
MathRound(a) == IF IsFinite(a) THEN RoundDiv(a, ValueScale) * ValueScale ELSE a

\* (n / d) * span for integers n, d: the quotient is NaN for 0/0 and
\* infinite for n/0; the product is kept to the unit of span
RatioTimes(n, d, span) ==
    IF isNaN(span) \/ (n = 0 /\ d = 0) THEN NaN
    ELSE IF d = 0
         THEN IF span = 0 THEN NaN ELSE Infinite(Sign(n) * Sign(span))
    ELSE IF ~IsFinite(span)
         THEN IF n = 0 THEN NaN ELSE Infinite(Sign(n) * Sign(d) * Sign(span))
    ELSE IF d > 0 THEN (n * span) \div d
    ELSE (0 - (n * span)) \div (0 - d)


(***************************************************************************)
(* svg-extractor: extractValuesFromPointMarkers                            *)
(***************************************************************************)
\* allPoints.forEach: the annotations of one role, in document order
RECURSIVE RolePoints(_, _, _)
RolePoints(markers, roles, nowT) ==
    IF markers = <<>> THEN <<>>
    ELSE LET label == Head(markers).label
             m == IF IsNull(label) THEN Null ELSE ValueMatch(Val(label))
             further == RolePoints(Tail(markers), roles, nowT)
         IN  IF ~IsNull(m) /\ Val(m).type \in roles
             THEN <<[value |-> Val(m).value, date |-> MarkerDate(Val(label), nowT)]>>
                    \o further
             ELSE further

\* validPoints.sort((a, b) => b.date - a.date)[0]: the first of the points
\* with the greatest date
NewestFirst(validPoints) ==
    LET best == CHOOSE i \in 1..Len(validPoints) :
                   /\ \A j \in 1..Len(validPoints) :
                         Val(validPoints[j].date) <= Val(validPoints[i].date)
                   /\ \A j \in 1..(i - 1) :
                         Val(validPoints[j].date) < Val(validPoints[i].date)
    IN  validPoints[best]

findLatestPoint(points, today) ==
    IF Len(points) = 0 THEN Null
    ELSE LET onOrBefore(p) == ~IsNull(p.date) /\ Val(p.date) <= today
             validPoints == SelectSeq(points, onOrBefore)
         IN  IF Len(validPoints) = 0 THEN Some(points[Len(points)])
             ELSE Some(NewestFirst(validPoints))

extractValuesFromPointMarkers(markers, nowT) ==
    LET today == EndOfDay(nowT)
        latestCompleted == findLatestPoint(RolePoints(markers, {"completed", "kanryo"}, nowT),
                                           today)
        latestOpen == findLatestPoint(RolePoints(markers, {"open", "opun"}, nowT), today)
    IN  [open |-> IF ~IsNull(latestOpen) THEN Some(Val(latestOpen).value) ELSE Null,
         completed |-> IF ~IsNull(latestCompleted) THEN Some(Val(latestCompleted).value)
                       ELSE Null]

(***************************************************************************)
(* svg-extractor: the path interpreter                                     *)
(*                                                                         *)
(* A path string is the sequence of its commands, each the opcode letter   *)
(* and the operands that follow it up to the next letter; an operand that  *)
(* parseFloat cannot read is NaN.                                          *)
(***************************************************************************)
NotNaN(n) == ~isNaN(n)

\* the relative forms written with = in place of +=
RECURSIVE WalkPairs_NoAccumulate(_, _, _, _)
WalkPairs_NoAccumulate(args, relative, x, y) ==
    IF Len(args) < 2 THEN [points |-> <<>>, x |-> x, y |-> y]
    ELSE LET further == WalkPairs_NoAccumulate(SubSeq(args, 3, Len(args)), relative,
                                               args[1], args[2])
         IN  [further EXCEPT !.points = <<[x |-> args[1], y |-> args[2]]>> \o @]

\* M, L (absolute) and m, l (relative): one point per pair of operands
RECURSIVE WalkPairs(_, _, _, _)
WalkPairs(args, relative, x, y) ==
    IF Len(args) < 2 THEN [points |-> <<>>, x |-> x, y |-> y]
    ELSE LET nx == IF relative THEN x + args[1] ELSE args[1]
             ny == IF relative THEN y + args[2] ELSE args[2]
             further == WalkPairs(SubSeq(args, 3, Len(args)), relative, nx, ny)
         IN  [further EXCEPT !.points = <<[x |-> nx, y |-> ny]>> \o @]

\* H, h, V, v: one point per operand, the other axis kept
RECURSIVE WalkAxis(_, _, _, _, _)
WalkAxis(args, horizontal, relative, x, y) ==
    IF args = <<>> THEN [points |-> <<>>, x |-> x, y |-> y]
    ELSE LET nx == IF ~horizontal THEN x
                   ELSE IF relative THEN x + Head(args) ELSE Head(args)
             ny == IF horizontal THEN y
                   ELSE IF relative THEN y + Head(args) ELSE Head(args)
             further == WalkAxis(Tail(args), horizontal, relative, nx, ny)
         IN  [further EXCEPT !.points = <<[x |-> nx, y |-> ny]>> \o @]

\* C, c: six operands to the segment, only its end point kept
RECURSIVE WalkCurves(_, _, _, _)
WalkCurves(args, relative, x, y) ==
    IF Len(args) < 6 THEN [points |-> <<>>, x |-> x, y |-> y]
    ELSE LET nx == IF relative THEN x + args[5] ELSE args[5]
             ny == IF relative THEN y + args[6] ELSE args[6]
             further == WalkCurves(SubSeq(args, 7, Len(args)), relative, nx, ny)
         IN  [further EXCEPT !.points = <<[x |-> nx, y |-> ny]>> \o @]

\* switch (command) of parsePathData
WalkCommand(op, args, x, y) ==
    CASE op \in {"M", "L"} -> WalkPairs(args, FALSE, x, y)
      [] op \in {"m", "l"} -> WalkPairs(args, TRUE, x, y)
      [] op = "H" -> WalkAxis(args, TRUE, FALSE, x, y)
      [] op = "h" -> WalkAxis(args, TRUE, TRUE, x, y)
      [] op = "V" -> WalkAxis(args, FALSE, FALSE, x, y)
      [] op = "v" -> WalkAxis(args, FALSE, TRUE, x, y)
      [] op = "C" -> WalkCurves(args, FALSE, x, y)
      [] op = "c" -> WalkCurves(args, TRUE, x, y)
      [] OTHER -> [points |-> <<>>, x |-> x, y |-> y]

\* while ((match = regex.exec(d)) !== null): the points visited by the
\* commands whose opcode is in handled, the cursor starting at (x, y)
RECURSIVE WalkPath(_, _, _, _)
WalkPath(d, handled, x, y) ==
    IF d = <<>> THEN <<>>
    ELSE LET args == SelectSeq(Head(d).args, NotNaN)
             step == IF Head(d).op \in handled
                     THEN WalkCommand(Head(d).op, args, x, y)
                     ELSE [points |-> <<>>, x |-> x, y |-> y]
         IN  step.points \o WalkPath(Tail(d), handled, step.x, step.y)

ParseOpcodes == {"M", "L", "C", "S", "T", "Q", "A", "H", "V", "Z",
                 "m", "l", "c", "s", "t", "q", "a", "h", "v", "z"}
LastPointOpcodes == {"M", "L", "H", "V", "l", "m", "h", "v"}

\* allPoints of parsePathData
AllPathPoints(d) == WalkPath(d, ParseOpcodes, 0, 0)

isPointInPlotBox(x, y, box) ==
    /\ x >= box.plotLeft - 1
    /\ x <= box.plotLeft + box.plotWidth + 1
    /\ y >= box.plotTop - 1
    /\ y <= box.plotTop + box.plotHeight + 1

extractLastPointFromPath(d, box) ==
    IF IsNull(d) \/ d = Some(<<>>) THEN Null
    ELSE LET inBox(q) == isPointInPlotBox(q.x, q.y, box)
             valid == SelectSeq(WalkPath(Val(d), LastPointOpcodes, 0, 0), inBox)
         IN  IF valid = <<>> THEN Null ELSE Some(valid[Len(valid)])

\* d.match(/^M\s*([\d.]+)\s*([\d.]+)/i): the first two operands of a leading
\* M or m when both are unsigned and a blank parts them; otherwise the
\* digits of the first operand alone are split before its last digit
extractFirstPointFromPath(d) ==
    IF IsNull(d) \/ d = Some(<<>>) THEN Null
    ELSE LET first == Head(Val(d))
             a == first.args
         IN  IF first.op \notin {"M", "m"} \/ a = <<>> THEN Null
             ELSE IF isNaN(a[1]) \/ a[1] < 0 THEN Null
             ELSE IF Len(a) >= 2 /\ first.sep = " " /\ ~isNaN(a[2]) /\ a[2] >= 0
                  THEN Some([x |-> a[1], y |-> a[2]])
             ELSE IF a[1] >= 10 THEN Some([x |-> a[1] \div 10, y |-> a[1] % 10])
             ELSE Null

pixelToValue(pixelY, plotTop, plotHeight, yMin, yMax) ==
    Plus(yMin, RatioTimes(plotTop + plotHeight - pixelY, plotHeight, Minus(yMax, yMin)))

\* new Date(startTime + xRatio * timeRange), kept to the tick
PixelDate(x, box, startTime, timeRange) ==
    LET scaled == RatioTimes(x - box.plotLeft, box.plotWidth, timeRange)
    IN  IF IsFinite(scaled) THEN startTime + scaled ELSE InvalidDate

\* toISOString().split('T')[0]: the day in UTC of a local time, in a zone
\* east of Greenwich (local midnight falls on the day before) or not
UtcDay(t, east) == IF east THEN (t - 1) \div TicksPerDay ELSE t \div TicksPerDay

\* for (const point of points) of sampleByDay: lastDate is Null at first
RECURSIVE SampleLoop(_, _, _)
SampleLoop(points, lastDate, east) ==
    IF points = <<>> THEN <<>>
    ELSE LET dateStr == Some(UtcDay(Head(points).date, east))
         IN  IF dateStr # lastDate
             THEN <<Head(points)>> \o SampleLoop(Tail(points), dateStr, east)
             ELSE SampleLoop(Tail(points), lastDate, east)

\* toISOString throws a RangeError on an invalid date
sampleByDay(points, east) ==
    IF \E i \in 1..Len(points) : points[i].date = InvalidDate
    THEN [threw |-> TRUE, points |-> <<>>]
    ELSE [threw |-> FALSE, points |-> SampleLoop(points, Null, east)]

\* the value of the one element of a set: a const of the code, computed
\* once and then read several times
Only(S) == CHOOSE x \in S : TRUE

\* dateRange is Null or Some([start, end]); clock is the reading of
\* new Date() when there is no date range
parsePathData(d, box, dateRange, yMin, yMax, clock, east) ==
    IF IsNull(d) \/ d = Some(<<>>) THEN [threw |-> FALSE, points |-> <<>>]
    ELSE LET inBox(q) == isPointInPlotBox(q.x, q.y, box)
             valueOf(q) == pixelToValue(q.y, box.plotTop, box.plotHeight, yMin, yMax)
             stamped(filteredPoints) ==
                 [i \in 1..Len(filteredPoints) |->
                    [date |-> clock, value |-> valueOf(filteredPoints[i])]]
             dated(filteredPoints) ==
                 [i \in 1..Len(filteredPoints) |->
                    [date |-> PixelDate(filteredPoints[i].x, box, Val(dateRange).start,
                                        Val(dateRange).end - Val(dateRange).start),
                     value |-> valueOf(filteredPoints[i])]]
         IN  Only({ IF IsNull(dateRange)
                    THEN [threw |-> FALSE, points |-> stamped(filteredPoints)]
                    ELSE Only({ IF \E i \in 1..Len(dataPoints) :
                                      dataPoints[i].date = InvalidDate
                                THEN sampleByDay(dataPoints, east)
                                ELSE Only({ sampleByDay(sorted, east) :
                                              sorted \in {SortByDate(dataPoints)} }) :
                                  dataPoints \in {dated(filteredPoints)} }) :
                      filteredPoints \in {SelectSeq(AllPathPoints(Val(d)), inBox)} })


(***************************************************************************)
(* svg-extractor: the date range                                           *)
(***************************************************************************)
\* parseDate of extractDateRangeFromLabels: the Japanese form is tried
\* first, then the English one; Null for any other text and for an
\* unknown month name
parseDate(text) ==
    IF text.headKind = "jpdate"
    THEN Some([month |-> text.monNum - 1, day |-> text.day, year |-> text.year])
    ELSE IF text.headKind = "date" /\ ToLower(text.mon) \in DOMAIN MONTH_NAME_TO_NUMBER
    THEN Some([month |-> MONTH_NAME_TO_NUMBER[ToLower(text.mon)], day |-> text.day,
               year |-> text.year])
    ELSE Null

\* year || fallback: a missing year and the year 0 are both falsy
YearOr(year, fallback) ==
    IF ~IsNull(year) /\ Val(year) # 0 THEN Val(year) ELSE fallback

\* the first year taken from the last label whatever the months
InferRange_NoWrap(firstLabel, lastLabel, nowT) ==
    LET endYear == YearOr(lastLabel.year, FullYear(nowT))
        startYear == YearOr(firstLabel.year, endYear)
    IN  [start |-> DateToTick(startYear, firstLabel.month, firstLabel.day),
         end |-> DateToTick(endYear, lastLabel.month, lastLabel.day)]

\* the years of both ends and the two dates built from them
InferRange(firstLabel, lastLabel, nowT) ==
    LET endYear == YearOr(lastLabel.year, FullYear(nowT))
        startYear == IF firstLabel.month > lastLabel.month
                        /\ YearOr(firstLabel.year, 0) = 0
                     THEN endYear - 1
                     ELSE YearOr(firstLabel.year, endYear)
    IN  [start |-> DateToTick(startYear, firstLabel.month, firstLabel.day),
         end |-> DateToTick(endYear, lastLabel.month, lastLabel.day)]

extractDateRangeFromLabels(xDates, nowT) ==
    IF Len(xDates) = 0 THEN Null
    ELSE LET firstLabel == parseDate(xDates[1])
             lastLabel == parseDate(xDates[Len(xDates)])
         IN  IF IsNull(firstLabel) \/ IsNull(lastLabel) THEN Null
             ELSE Some(InferRange(Val(firstLabel), Val(lastLabel), nowT))

\* the page text holds no range (form "none"), one in the Japanese form
\* "<m>gatsu <d> - <y>nen <m>gatsu <d>nichi" or one in the English form
\* "<Mon> <d>[, <y>] - <Mon> <d>[, <y>]"
extractDateRangeFromPage(pageText, nowT) ==
    IF pageText.form = "jp"
    THEN LET endYear == Val(pageText.last.year)
             startMonth == pageText.first.monNum - 1
             endMonth == pageText.last.monNum - 1
             startYear == IF startMonth > endMonth THEN endYear - 1 ELSE endYear
         IN  Some([start |-> DateToTick(startYear, startMonth, pageText.first.day),
                   end |-> DateToTick(endYear, endMonth, pageText.last.day)])
    ELSE IF pageText.form = "en"
    THEN IF ToLower(pageText.first.mon) \notin DOMAIN MONTH_NAME_TO_NUMBER
            \/ ToLower(pageText.last.mon) \notin DOMAIN MONTH_NAME_TO_NUMBER
         THEN Null
         ELSE Some(InferRange(
                  [month |-> MONTH_NAME_TO_NUMBER[ToLower(pageText.first.mon)],
                   day |-> pageText.first.day, year |-> pageText.first.year],
                  [month |-> MONTH_NAME_TO_NUMBER[ToLower(pageText.last.mon)],
                   day |-> pageText.last.day, year |-> pageText.last.year], nowT))
    ELSE Null

(***************************************************************************)
(* svg-extractor: detectChartType                                          *)
(*                                                                         *)
(* The chart root is a record: plotBackground (Null or the rectangle),     *)
(* xLabels (texts), yLabels (texts), legend (texts), series (each with its *)
(* area path and its graph path, Null when absent) and points (the point   *)
(* markers under the series in document order, each with its d and its     *)
(* aria-label, Null when absent).                                          *)
(***************************************************************************)
WordStart == {"Completed", "COMPLETED", "Open", "OPEN", "Done", "Closed"}

\* ariaLabel.includes('Iteration') || /\d+(\.\d+)?\.\s*\w+/.test(ariaLabel):
\* a digit, a dot and a word character, either inside the number or where
\* the number ends in a digit and the tail starts with a word character
IterationPattern(label) ==
    \/ label.headKind = "name" /\ label.mon = "Iteration"
    \/ \E i \in 1..(Len(label.num) - 2) :
          /\ label.num[i] \in Digits
          /\ label.num[i + 1] = "."
          /\ label.num[i + 2] \in Digits
    \/ /\ label.num # <<>>
       /\ label.num[Len(label.num)] \in Digits
       /\ label.tail \in WordStart

\* pathData.includes(c)
PathIncludes(d, c) == \E i \in 1..Len(d) : d[i].op = c

\* the rule on the first marker without the test of its annotation
LooksLikeColumns_ShapeOnly(svg) ==
    /\ Len(svg.points) > 0
    /\ ~IsNull(svg.points[1].d)
    /\ PathIncludes(Val(svg.points[1].d), "L")
    /\ PathIncludes(Val(svg.points[1].d), "Z")

LooksLikeColumns(svg) ==
    /\ Len(svg.points) > 0
    /\ ~IsNull(svg.points[1].d)
    /\ PathIncludes(Val(svg.points[1].d), "L")
    /\ PathIncludes(Val(svg.points[1].d), "Z")
    /\ ~IsNull(svg.points[1].label)
    /\ IterationPattern(Val(svg.points[1].label))

detectChartType(svg) ==
    IF IsNull(svg) THEN "unknown"
    ELSE IF \E i \in 1..Len(Val(svg).series) : ~IsNull(Val(svg).series[i].area)
    THEN "burnup"
    ELSE IF LooksLikeColumns(Val(svg)) THEN "velocity"
    ELSE IF \E i \in 1..Len(Val(svg).series) : ~IsNull(Val(svg).series[i].graph)
    THEN "burnup"
    ELSE "unknown"


(***************************************************************************)
(* svg-extractor: extractFromColumnChart and extractFromSVG                *)
(***************************************************************************)
\* parseFloat(text.replace(/,/g, '')) of every y-axis label, NaN dropped
NotComma(c) == c # ","
YValues(svg) ==
    LET value(i) == parseFloat(SelectSeq(svg.yLabels[i], NotComma))
        kept == { i \in 1..Len(svg.yLabels) : ~isNaN(value(i)) }
    IN  { value(i) : i \in kept }

\* Math.min(...values) and Math.max(...values)
MathMin(values) ==
    IF values = {} THEN PosInf ELSE CHOOSE v \in values : \A w \in values : v <= w
MathMax(values) ==
    IF values = {} THEN NegInf ELSE CHOOSE v \in values : \A w \in values : v >= w

\* the attributes x, y, width, height of the background rectangle
PlotBoxOf(svg) == Val(svg.plotBackground)

\* the loop that numbers the records it keeps instead of the columns
RECURSIVE IterationLoop_CountsKept(_, _)
IterationLoop_CountsKept(points, index) ==
    IF points = <<>> THEN <<>>
    ELSE LET label == Head(points).label
         IN  IF IsNull(label) \/ Val(label).num = <<>>
                \/ isNaN(parseFloat(Val(label).num))
             THEN IterationLoop_CountsKept(Tail(points), index)
             ELSE <<[name |-> [headKind |-> Val(label).headKind, mon |-> Val(label).mon,
                               day |-> Val(label).day],
                     estimate |-> parseFloat(Val(label).num),
                     groupName |-> IF Val(label).tail = "" THEN Null
                                   ELSE Some(Val(label).tail),
                     index |-> index]>>
                  \o IterationLoop_CountsKept(Tail(points), index + 1)

\* ariaLabel.match(/^(.+?),\s*([\d.]+)\.\s*(.*)$/) of one column, with its
\* position in drawing order
RECURSIVE IterationLoop(_, _)
IterationLoop(points, index) ==
    IF points = <<>> THEN <<>>
    ELSE LET label == Head(points).label
             further == IterationLoop(Tail(points), index + 1)
         IN  IF IsNull(label) \/ Val(label).num = <<>>
                \/ isNaN(parseFloat(Val(label).num))
             THEN further
             ELSE <<[name |-> [headKind |-> Val(label).headKind, mon |-> Val(label).mon,
                               day |-> Val(label).day],
                     estimate |-> parseFloat(Val(label).num),
                     groupName |-> IF Val(label).tail = "" THEN Null
                                   ELSE Some(Val(label).tail),
                     index |-> index]>> \o further

\* the column extraction that reads a missing background rectangle like
\* missing attributes, as a plot box of zeros
extractFromColumnChart_DefaultBox(svg) ==
    LET values == YValues(svg)
        iterations == IterationLoop(svg.points, 0)
    IN  Some([chartType |-> "velocity",
              iterations |-> iterations,
              chartInfo |->
                [plotBox |-> IF IsNull(svg.plotBackground)
                             THEN [plotLeft |-> 0, plotTop |-> 0, plotWidth |-> 0,
                                   plotHeight |-> 0]
                             ELSE Val(svg.plotBackground),
                 axes |-> [xMin |-> 0,
                           xMax |-> Len(iterations) - 1,
                           yMin |-> IF values # {} THEN MathMin(values) ELSE 0,
                           yMax |-> IF values # {} THEN MathMax(values)
                                    ELSE 100 * ValueScale]]])

extractFromColumnChart(svg) ==
    IF IsNull(svg.plotBackground) THEN Null
    ELSE LET values == YValues(svg)
             iterations == IterationLoop(svg.points, 0)
         IN  Some([chartType |-> "velocity",
                   iterations |-> iterations,
                   chartInfo |->
                     [plotBox |-> PlotBoxOf(svg),
                      axes |-> [xMin |-> 0,
                                xMax |-> Len(iterations) - 1,
                                yMin |-> IF values # {} THEN MathMin(values) ELSE 0,
                                yMax |-> IF values # {} THEN MathMax(values)
                                         ELSE 100 * ValueScale]]])

\* seriesGroups.forEach: one entry per series that has a path, the graph
\* path before the area path; a path element without d reads as the empty d
RECURSIVE SeriesLoop(_, _, _, _, _, _, _, _)
SeriesLoop(series, i, box, dateRange, yMin, yMax, clock, east) ==
    IF series = <<>> THEN <<>>
    ELSE LET group == Head(series)
             pathOfGroup == IF ~IsNull(group.graph) THEN group.graph ELSE group.area
             parsed == parsePathData(pathOfGroup, box, dateRange, yMin, yMax, clock, east)
             further == SeriesLoop(Tail(series), i + 1, box, dateRange, yMin, yMax,
                                   clock, east)
         IN  IF IsNull(group.graph) /\ IsNull(group.area) THEN further
             ELSE <<[index |-> i, threw |-> parsed.threw, points |-> parsed.points,
                     startPixel |-> extractFirstPointFromPath(pathOfGroup),
                     lastPixel |-> extractLastPointFromPath(pathOfGroup, box)]>> \o further

findSeriesByLegendIndex(seriesData, legendIndex) ==
    IF legendIndex < Len(seriesData) THEN Some(seriesData[legendIndex + 1]) ELSE Null

\* name.includes('completed') || name.includes(<kanryo>), then the same
\* for open
LegendRole(name) ==
    IF ToLower(name) \in {"completed", "kanryo"} THEN "completed"
    ELSE IF ToLower(name) \in {"open", "opun"} THEN "open"
    ELSE "none"

\* for (const legend of seriesInfo): legend items without text are not in
\* seriesInfo, the others keep their position as index
RECURSIVE LegendLoop(_, _, _, _)
LegendLoop(legend, index, seriesData, bound) ==
    IF legend = <<>> THEN bound
    ELSE LET series == findSeriesByLegendIndex(seriesData, index)
             role == IF Head(legend) = "" THEN "none" ELSE LegendRole(Head(legend))
             next == IF IsNull(series) THEN bound
                     ELSE IF role = "completed"
                     THEN [bound EXCEPT !.completedData = Val(series).points,
                                        !.completedStartPixel = Val(series).startPixel,
                                        !.completedLastPixel = Val(series).lastPixel]
                     ELSE IF role = "open"
                     THEN [bound EXCEPT !.openData = Val(series).points]
                     ELSE bound
         IN  LegendLoop(Tail(legend), index + 1, seriesData, next)


\* the binding by magnitude applied whenever two clouds exist, whatever the
\* legend bound
MagnitudeFallback_Always(seriesData, bound) ==
    LET lastValue(k) == IF Len(seriesData[k].points) > 0
                        THEN seriesData[k].points[Len(seriesData[k].points)].value
                        ELSE 0
        completedIs(k) == [bound EXCEPT !.completedData = seriesData[k].points,
                                        !.completedStartPixel = seriesData[k].startPixel,
                                        !.completedLastPixel = seriesData[k].lastPixel]
    IN  IF Len(seriesData) >= 2
        THEN IF Greater(lastValue(1), lastValue(2))
             THEN [completedIs(2) EXCEPT !.openData = seriesData[1].points]
             ELSE [completedIs(1) EXCEPT !.openData = seriesData[2].points]
        ELSE IF Len(bound.completedData) = 0 /\ Len(seriesData) >= 1
        THEN completedIs(1)
        ELSE bound

\* the binding of the clouds when no legend text matched
MagnitudeFallback(seriesData, bound) ==
    LET lastValue(k) == IF Len(seriesData[k].points) > 0
                        THEN seriesData[k].points[Len(seriesData[k].points)].value
                        ELSE 0
        completedIs(k) == [bound EXCEPT !.completedData = seriesData[k].points,
                                        !.completedStartPixel = seriesData[k].startPixel,
                                        !.completedLastPixel = seriesData[k].lastPixel]
    IN  IF Len(bound.completedData) = 0 /\ Len(bound.openData) = 0 /\ Len(seriesData) >= 2
        THEN IF Greater(lastValue(1), lastValue(2))
             THEN [completedIs(2) EXCEPT !.openData = seriesData[1].points]
             ELSE [completedIs(1) EXCEPT !.openData = seriesData[2].points]
        ELSE IF Len(bound.completedData) = 0 /\ Len(seriesData) >= 1
        THEN completedIs(1)
        ELSE bound

\* total and completed before the consistency correction
ResolveTotals_OpenOnly(pointValues, bound) ==
    [total |-> IF ~IsNull(pointValues.open) THEN Val(pointValues.open)
               ELSE IF Len(bound.openData) > 0
               THEN MathRound(bound.openData[Len(bound.openData)].value)
               ELSE 0,
     completed |-> IF ~IsNull(pointValues.completed) THEN Val(pointValues.completed)
                   ELSE IF Len(bound.completedData) > 0
                   THEN MathRound(bound.completedData[Len(bound.completedData)].value)
                   ELSE 0]

ResolveTotals(pointValues, bound) ==
    [total |-> IF ~IsNull(pointValues.open) /\ ~IsNull(pointValues.completed)
               THEN Plus(Val(pointValues.open), Val(pointValues.completed))
               ELSE IF ~IsNull(pointValues.open) THEN Val(pointValues.open)
               ELSE IF Len(bound.openData) > 0
               THEN MathRound(bound.openData[Len(bound.openData)].value)
               ELSE 0,
     completed |-> IF ~IsNull(pointValues.completed) THEN Val(pointValues.completed)
                   ELSE IF Len(bound.completedData) > 0
                   THEN MathRound(bound.completedData[Len(bound.completedData)].value)
                   ELSE 0]

\* if (completed > total && total > 0): the two values and the two clouds
\* change places
ConsistencySwap(totals, bound) ==
    IF Greater(totals.completed, totals.total) /\ Greater(totals.total, 0)
    THEN [total |-> totals.completed, completed |-> totals.total,
          completedData |-> bound.openData, openData |-> bound.completedData]
    ELSE [total |-> totals.total, completed |-> totals.completed,
          completedData |-> bound.completedData, openData |-> bound.openData]

\* yMax || total
Truthy(a) == ~isNaN(a) /\ a # 0

\* the returned object of the burnup branch
BurnupObject(svg, nowT, yMin, yMax, bound, final, finalDateRange) ==
    [chartType |-> "burnup",
     total |-> final.total,
     completed |-> final.completed,
     completedData |-> final.completedData,
     openData |-> final.openData,
     completedStartPixel |-> bound.completedStartPixel,
     completedLastPixel |-> bound.completedLastPixel,
     dateRange |-> finalDateRange,
     chartInfo |->
       [plotBox |-> PlotBoxOf(svg),
        axes |-> [xMin |-> IF IsNull(finalDateRange) THEN 0
                           ELSE Val(finalDateRange).start,
                  xMax |-> IF IsNull(finalDateRange) THEN nowT
                           ELSE Val(finalDateRange).end,
                  yMin |-> yMin,
                  yMax |-> IF Truthy(yMax) THEN yMax ELSE final.total]]]

\* completedData, openData and the two pixels of the completed series:
\* bound by legend text, then by magnitude
BindSeries(svg, seriesData) ==
    Only({ MagnitudeFallback(seriesData, byLegend) :
             byLegend \in { LegendLoop(svg.legend, 0, seriesData,
                                       [completedData |-> <<>>, openData |-> <<>>,
                                        completedStartPixel |-> Null,
                                        completedLastPixel |-> Null]) } })

\* extractFromSVG from the binding of the series on: the values of the
\* markers, the totals, the consistency correction and the date range
ResolveSeries(dom, svg, nowT, yMin, yMax, dateRange, seriesData) ==
    Only({ BurnupObject(svg, nowT, yMin, yMax, bound,
                        Only({ ConsistencySwap(ResolveTotals(pointValues, bound), bound) :
                                 pointValues \in {extractValuesFromPointMarkers(svg.points,
                                                                                nowT)} }),
                        finalDateRange) :
             bound \in {BindSeries(svg, seriesData)},
             finalDateRange \in { IF ~IsNull(dateRange) THEN dateRange
                                  ELSE extractDateRangeFromPage(dom.pageText, nowT) } })

\* the burnup branch of extractFromSVG; dom is the document with its chart
\* root svg and its page text
BurnupResult(dom, svg, nowT, east) ==
    Only({ Only({ IF \E k \in 1..Len(seriesData) : seriesData[k].threw
                  THEN [outcome |-> "threw", value |-> Null]
                  ELSE [outcome |-> "returned",
                        value |-> Some(ResolveSeries(dom, svg, nowT, yMin, yMax, dateRange,
                                                     seriesData))] :
                    seriesData \in { SeriesLoop(svg.series, 0, PlotBoxOf(svg), dateRange,
                                                yMin, yMax, nowT, east) } }) :
             dateRange \in {extractDateRangeFromLabels(svg.xLabels, nowT)},
             yMin \in {MathMin(YValues(svg))},
             yMax \in {MathMax(YValues(svg))} })

extractFromSVG(dom, nowT, east) ==
    IF IsNull(dom.svg) THEN [outcome |-> "returned", value |-> Null]
    ELSE IF detectChartType(dom.svg) = "velocity"
    THEN [outcome |-> "returned", value |-> extractFromColumnChart(Val(dom.svg))]
    ELSE IF IsNull(Val(dom.svg).plotBackground)
    THEN [outcome |-> "returned", value |-> Null]
    ELSE BurnupResult(dom, Val(dom.svg), nowT, east)


(***************************************************************************)
(* Inputs of calculateVelocity: series of up to MaxPoints points at        *)
(* distinct ticks 0..MaxTick, handed over in ascending or descending       *)
(* order; the clock stands at the first tick of day Today.                 *)
(***************************************************************************)
MaxPoints == 4
MaxTick == 5
MaxLookback == 2
Today == 1

Ticks == 0..MaxTick
PointValues == {0, 1, 3}
StartValues == {0, 1}

RECURSIVE SetToSeq(_)
SetToSeq(S) ==
    IF S = {} THEN <<>>
    ELSE LET m == CHOOSE x \in S : \A y \in S : x <= y
         IN  <<m>> \o SetToSeq(S \ {m})

SeriesOver(S) ==
    LET order == SetToSeq(S)
    IN  { [i \in 1..Len(order) |-> [date |-> order[i], value |-> f[order[i]]]] :
            f \in [S -> PointValues] }

SeriesInputs ==
    LET ascending == UNION { SeriesOver(S) :
                               S \in { T \in SUBSET Ticks : Cardinality(T) <= MaxPoints } }
    IN  ascending \cup { Reverse(s) : s \in ascending }

InitVelocity ==
    /\ pc = "ready"
    /\ now = Today * TicksPerDay
    /\ completedData \in SeriesInputs
    /\ startDate \in Ticks
    /\ startValue \in StartValues
    /\ lookbackDays \in 1..MaxLookback
    /\ velocityResult = NullVelocity
    /\ PredictionIdle
    /\ PathIdle
    /\ SvgIdle
    /\ ExtraIdle

CalculateVelocity ==
    /\ pc = "ready"
    /\ velocityResult' = calculateVelocity(completedData, startDate, startValue,
                                           lookbackDays, now)
    /\ pc' = "done"
    /\ UNCHANGED extraVars
    /\ UNCHANGED <<now, completedData, startDate, startValue, lookbackDays,
                   predictionVars, pathVars, svgVars>>

NextVelocity == CalculateVelocity

SpecVelocity == InitVelocity /\ [][NextVelocity]_vars

(***************************************************************************)
(* Claims about calculateVelocity.  The quantities of the claims are       *)
(* restated over the set of valid input points, apart from the code's      *)
(* sorted arrays.                                                          *)
(***************************************************************************)
ValidInput == { completedData[i] : i \in { j \in 1..Len(completedData) :
                                             IsValidPoint(completedData[j]) } }
TodayEndTick == EndOfDay(now)
PastInput == { p \in ValidInput : p.date <= TodayEndTick }
MaxByDate(S) == CHOOSE p \in S : \A q \in S : q.date <= p.date
MinByDate(S) == CHOOSE p \in S : \A q \in S : p.date <= q.date
LatestObserved == IF PastInput # {} THEN MaxByDate(PastInput) ELSE MinByDate(ValidInput)
WindowInput == { p \in ValidInput : /\ p.date >= TodayEndTick - lookbackDays * TicksPerDay
                                    /\ p.date <= TodayEndTick }
FallbackCase == ValidInput # {} /\ Cardinality(WindowInput) < 2
WindowedCase == Cardinality(WindowInput) >= 2
WindowStartDate == IF MinByDate(WindowInput).date < startDate THEN startDate
                   ELSE MinByDate(WindowInput).date
\* the span (in ticks) and the progress the returned rate is computed from
SpanTicks == IF WindowedCase THEN MaxByDate(WindowInput).date - WindowStartDate
             ELSE LatestObserved.date - startDate
SpanProgress ==
    IF WindowedCase
    THEN MaxByDate(WindowInput).value
           - PeriodStartValue(SortByDate(SelectSeq(completedData, IsValidPoint)),
                              MinByDate(WindowInput), WindowStartDate, startDate, startValue)
    ELSE LatestObserved.value - startValue

\* C1: calculateVelocity reports a null current rate whenever the day-span
\* the rate is computed over is <= 0 or the computed rate is <= 0, and a
\* rate it does report is strictly positive.
C1_NullUnlessPositive ==
    pc = "done" =>
        /\ (ValidInput # {} /\ (SpanTicks <= 0 \/ SpanProgress <= 0))
               => IsNull(velocityResult.current)
        /\ ~IsNull(velocityResult.current)
               => /\ Val(velocityResult.current).num > 0
                  /\ Val(velocityResult.current).den > 0

\* C1 witness: a windowed call over a positive span with no progress
C1_Witness ==
    /\ pc = "done"
    /\ WindowedCase
    /\ SpanTicks > 0
    /\ SpanProgress <= 0
    /\ IsNull(velocityResult.current)

\* C1 witness of the other case: a non-positive day-span in the fallback
C1_WitnessSpan ==
    /\ pc = "done"
    /\ FallbackCase
    /\ SpanTicks <= 0
    /\ IsNull(velocityResult.current)

\* the all-time rate of the claim, as progress per day over SpanTicks ticks
AllTimeRate == Rat((LatestObserved.value - startValue) * TicksPerDay,
                   LatestObserved.date - startDate)
ReportsAllTimeRate ==
    /\ ~IsNull(velocityResult.current)
    /\ RatEq(Val(velocityResult.current), AllTimeRate)
    /\ velocityResult.periodStartDate = Some(startDate)
    /\ velocityResult.periodEndDate = Some(LatestObserved.date)

\* C2 as stated: with fewer than two points inside the lookback window the
\* call returns the all-time rate whenever that quotient is positive.
C2_Original ==
    (pc = "done" /\ FallbackCase /\ AllTimeRate.den # 0
       /\ AllTimeRate.num * AllTimeRate.den > 0)
        => ReportsAllTimeRate

\* C2 amended: with fewer than two points inside the lookback window the
\* call returns the all-time rate whenever the day-span from the project
\* start to the latest point is positive and the rate is positive.
C2_FallbackRate ==
    (pc = "done" /\ FallbackCase /\ AllTimeRate.den > 0 /\ AllTimeRate.num > 0)
        => ReportsAllTimeRate

\* C2 witness: exactly one point inside the window, older points outside
C2_Witness ==
    /\ pc = "done"
    /\ Cardinality(WindowInput) = 1
    /\ Cardinality(ValidInput) > 1
    /\ AllTimeRate.den > 0
    /\ AllTimeRate.num > 0
    /\ ReportsAllTimeRate

\* the four fields that describe the period of a VelocityResult
PeriodFields == {"periodStartDate", "periodEndDate", "periodStartValue", "periodEndValue"}
PeriodNull == \A f \in PeriodFields : IsNull(velocityResult[f])
PeriodPopulated == \A f \in PeriodFields : ~IsNull(velocityResult[f])

\* C12 as stated: current and the four period fields of every result are
\* either all null or all non-null
C12_Original ==
    pc = "done" =>
        \/ IsNull(velocityResult.current) /\ PeriodNull
        \/ ~IsNull(velocityResult.current) /\ PeriodPopulated

\* C12 amended: the four period fields of every result are all null or all
\* non-null, a rate is reported only together with its period, and the
\* period is reported without a rate exactly when the progress over it is
\* not positive
C12_PeriodTogether ==
    pc = "done" =>
        /\ PeriodNull \/ PeriodPopulated
        /\ ~IsNull(velocityResult.current) => PeriodPopulated
        /\ PeriodPopulated =>
             (IsNull(velocityResult.current)
                <=> Val(velocityResult.periodEndValue)
                      - Val(velocityResult.periodStartValue) <= 0)

\* C12 witness: a period reported without a rate, in the fallback and in
\* the windowed case
C12_Witness ==
    /\ pc = "done"
    /\ FallbackCase
    /\ IsNull(velocityResult.current)
    /\ PeriodPopulated

C12_WitnessWindowed ==
    /\ pc = "done"
    /\ WindowedCase
    /\ IsNull(velocityResult.current)
    /\ PeriodPopulated

(***************************************************************************)
(* Inputs of calculatePrediction                                           *)
(***************************************************************************)
MaxTotal == 3
MaxRateNum == 3
MaxDueTick == 8

VelocityInputs ==
    {Null} \cup { Some(Rat(n, d)) : n \in (0 - 1)..MaxRateNum, d \in 1..2 }

InitPrediction ==
    /\ pc = "ready"
    /\ now \in {Today * TicksPerDay, Today * TicksPerDay + 1}
    /\ chartData \in [total : 0..MaxTotal, completed : 0..(MaxTotal + 1)]
    /\ currentVelocity \in VelocityInputs
    /\ dueDate \in {Null} \cup { Some(t) : t \in 0..MaxDueTick }
    /\ prediction = NullPrediction
    /\ VelocityIdle
    /\ PathIdle
    /\ SvgIdle
    /\ ExtraIdle

CalculatePrediction ==
    /\ pc = "ready"
    /\ prediction' = calculatePrediction(chartData, currentVelocity, dueDate, now)
    /\ pc' = "done"
    /\ UNCHANGED extraVars
    /\ UNCHANGED <<now, chartData, currentVelocity, dueDate, velocityVars, pathVars,
                   svgVars>>

NextPrediction == CalculatePrediction

SpecPrediction == InitPrediction /\ [][NextPrediction]_vars

\* C3: whenever max(0, total - completed) = 0, also when completed exceeds
\* total, calculatePrediction returns completionDate = now, idealVelocity = 0
\* and isOnTrack = true for every current velocity and due date.
C3_NothingRemaining ==
    (pc = "done" /\ chartData.total <= chartData.completed)
        => /\ prediction.completionDate = Some(now)
           /\ ~IsNull(prediction.idealVelocity)
           /\ Val(prediction.idealVelocity).num = 0
           /\ prediction.isOnTrack = Some(TRUE)

\* C3 witness: completed exceeds total, a positive velocity and a due date
\* already in the past
C3_Witness ==
    /\ pc = "done"
    /\ chartData.completed > chartData.total
    /\ ~IsNull(currentVelocity)
    /\ Val(currentVelocity).num > 0
    /\ ~IsNull(dueDate)
    /\ Val(dueDate) < now
    /\ prediction.isOnTrack = Some(TRUE)
    /\ prediction.completionDate = Some(now)

Judged ==
    /\ pc = "done"
    /\ chartData.total > chartData.completed
    /\ ~IsNull(prediction.completionDate)
    /\ ~IsNull(dueDate)

\* C4 as stated: with work remaining, a completion date and a due date,
\* isOnTrack is true exactly when completionDate is on or before dueDate.
C4_Original ==
    Judged => prediction.isOnTrack
                 = Some(Val(prediction.completionDate) <= Val(dueDate))

\* C4 amended: with work remaining, a completion date and a due date,
\* isOnTrack is true exactly when completionDate is at most half a day
\* after dueDate (the difference rounded to whole days is not negative).
C4_OnTrackWithinHalfDay ==
    Judged => prediction.isOnTrack
                 = Some(2 * (Val(prediction.completionDate) - Val(dueDate))
                          <= TicksPerDay)

\* C4 witness: completion half a day after the due date, judged on track
C4_Witness ==
    /\ Judged
    /\ Val(prediction.completionDate) > Val(dueDate)
    /\ prediction.isOnTrack = Some(TRUE)

\* C4 witness of the verdict false: completion a day or more late
C4_WitnessLate ==
    /\ Judged
    /\ prediction.isOnTrack = Some(FALSE)

(***************************************************************************)
(* Inputs of the path interpreter: up to MaxCommands commands, each with   *)
(* up to MaxOperands operands taken from the front of an operand list.     *)
(***************************************************************************)
MaxCommands == 2
MaxOperands == 4

PathOpcodes == {"M", "L", "m", "l", "H"}
OperandLists == { <<1, 2, 3, 4, 1, 2>>, <<2, 0 - 1, 0 - 2, 3, 1, 5>> }
CommandInputs ==
    { [op |-> o, sep |-> " ", args |-> SubSeq(t, 1, n)] :
        o \in PathOpcodes, t \in OperandLists, n \in 0..MaxOperands }
PlotBoxInputs ==
    { [plotLeft |-> 0, plotTop |-> 0, plotWidth |-> 8, plotHeight |-> 8],
      [plotLeft |-> 1, plotTop |-> 1, plotWidth |-> 1, plotHeight |-> 2] }

InitPath ==
    /\ pc = "ready"
    /\ now = Today * TicksPerDay
    /\ \E k \in 0..MaxCommands : pathD \in [1..k -> CommandInputs]
    /\ plotBox \in PlotBoxInputs
    /\ allPoints = <<>>
    /\ lastValidPoint = Null
    /\ VelocityIdle
    /\ PredictionIdle
    /\ SvgIdle
    /\ ExtraIdle

InterpretPath ==
    /\ pc = "ready"
    /\ allPoints' = AllPathPoints(pathD)
    /\ lastValidPoint' = extractLastPointFromPath(Some(pathD), plotBox)
    /\ pc' = "done"
    /\ UNCHANGED extraVars
    /\ UNCHANGED <<now, pathD, plotBox, velocityVars, predictionVars, svgVars>>

NextPath == InterpretPath

SpecPath == InitPath /\ [][NextPath]_vars

\* the coordinate pairs of a path string in input order, each with the
\* form (relative or absolute) of its command; a lone last operand of a
\* command belongs to no pair
RECURSIVE CoordinatePairs(_)
CoordinatePairs(d) ==
    IF d = <<>> THEN <<>>
    ELSE [k \in 1..(Len(Head(d).args) \div 2) |->
             [relative |-> Head(d).op \in {"m", "l"},
              a |-> Head(d).args[2 * k - 1],
              b |-> Head(d).args[2 * k]]]
           \o CoordinatePairs(Tail(d))

\* the position of pair k after relative-to-absolute accumulation
RECURSIVE PairPosition(_, _)
PairPosition(pairs, k) ==
    IF ~pairs[k].relative THEN [x |-> pairs[k].a, y |-> pairs[k].b]
    ELSE LET from == IF k = 1 THEN [x |-> 0, y |-> 0] ELSE PairPosition(pairs, k - 1)
         IN  [x |-> from.x + pairs[k].a, y |-> from.y + pairs[k].b]

OnlyMoveAndLine(d) == \A i \in 1..Len(d) : d[i].op \in {"M", "L", "m", "l"}

\* C10: for a path string made only of M/L and m/l commands the
\* interpreter visits exactly one point per coordinate pair, in input
\* order, each the pair after relative-to-absolute accumulation from (0,0);
\* a lone last operand is ignored.  extractLastPointFromPath walks the same
\* points and returns the last of them inside the plot rectangle.
C10_OnePointPerPair ==
    (pc = "done" /\ OnlyMoveAndLine(pathD))
        => LET pairs == CoordinatePairs(pathD)
               inside == { k \in 1..Len(pairs) :
                             isPointInPlotBox(PairPosition(pairs, k).x,
                                              PairPosition(pairs, k).y, plotBox) }
           IN  /\ Len(allPoints) = Len(pairs)
               /\ \A k \in 1..Len(pairs) : allPoints[k] = PairPosition(pairs, k)
               /\ IF inside = {} THEN lastValidPoint = Null
                  ELSE lastValidPoint
                         = Some(PairPosition(pairs,
                                   CHOOSE k \in inside : \A j \in inside : j <= k))

\* C10 witness: an absolute move, then relative pairs and a lone operand
C10_Witness ==
    /\ pc = "done"
    /\ Len(pathD) = 2
    /\ pathD[1].op = "M"
    /\ pathD[2].op = "l"
    /\ Len(pathD[1].args) = 2
    /\ Len(pathD[2].args) = 3
    /\ Len(allPoints) = 2
    /\ allPoints[2] = [x |-> pathD[1].args[1] + pathD[2].args[1],
                       y |-> pathD[1].args[2] + pathD[2].args[2]]
    /\ ~IsNull(lastValidPoint)

(***************************************************************************)
(* Inputs of extractValuesFromPointMarkers: up to MaxMarkers point markers *)
(* read on 28 January 2026, each without aria-label or annotated with a    *)
(* date, a value and a word; the value of a marker is given by its         *)
(* position, so that the chosen marker can be told from its value.         *)
(***************************************************************************)
MaxMarkers == 3

ClockInputs == { DateToTick(2026, 0, 28), DateToTick(2026, 0, 28) + 1 }

Label(kind, mon, monNum, day, year, num, tail) ==
    [headKind |-> kind, mon |-> mon, monNum |-> monNum, day |-> day, year |-> year,
     num |-> num, tail |-> tail]

MarkerHeads ==
    { [mon |-> "Jan", day |-> 28, year |-> Null],
      [mon |-> "Feb", day |-> 9, year |-> Some(2026)],
      [mon |-> "Dec", day |-> 19, year |-> Some(2025)],
      [mon |-> "Dec", day |-> 19, year |-> Null],
      [mon |-> "Xyz", day |-> 1, year |-> Null] }
MarkerTails == {"Completed", "Open", "kanryo"}
NumPool == << <<"4", "8">>, <<"1", "1", "8">>, <<"7">>, <<"1", "5", "4", ".", "5">>,
              <<"9">> >>

\* the markers of a chart with k points: the choice c gives each its label
MarkerChoices == {"none"} \cup (MarkerHeads \X MarkerTails)
MarkerAt(c, i) ==
    [d |-> Null,
     label |-> IF c = "none" THEN Null
               ELSE Some(Label("date", c[1].mon, 0, c[1].day, c[1].year,
                               NumPool[i], c[2]))]
MarkersOf(c) == [i \in 1..Len(c) |-> MarkerAt(c[i], i)]

SvgWith(background, xLabels, yLabels, legend, series, points) ==
    [plotBackground |-> background, xLabels |-> xLabels, yLabels |-> yLabels,
     legend |-> legend, series |-> series, points |-> points]

InitMarkers ==
    /\ pc = "ready"
    /\ now \in ClockInputs
    /\ \E k \in 0..MaxMarkers : \E c \in [1..k -> MarkerChoices] :
          document = [svg |-> Some(SvgWith(Null, <<>>, <<>>, <<>>, <<>>, MarkersOf(c))),
                      pageText |-> [form |-> "none"]]
    /\ zoneEast = FALSE
    /\ chartResult = [outcome |-> "none", value |-> Null]
    /\ markerValues = [open |-> Null, completed |-> Null]
    /\ chartType = "unknown"
    /\ axisLabels = <<>>
    /\ labelRange = Null
    /\ VelocityIdle
    /\ PredictionIdle
    /\ PathIdle
    /\ ExtraIdle

ExtractValuesFromPointMarkers ==
    /\ pc = "ready"
    /\ markerValues' = extractValuesFromPointMarkers(Val(document.svg).points, now)
    /\ pc' = "done"
    /\ UNCHANGED extraVars
    /\ UNCHANGED <<now, document, zoneEast, chartResult, chartType, axisLabels, labelRange,
                   velocityVars, predictionVars, pathVars>>

NextMarkers == ExtractValuesFromPointMarkers

SpecMarkers == InitMarkers /\ [][NextMarkers]_vars

\* the markers of the chart and, for a role, the positions of its
\* annotations, of those dated, and of those dated on or before the end of
\* today
Markers == Val(document.svg).points
RoleWords(role) == IF role = "completed" THEN {"completed", "kanryo"} ELSE {"open", "opun"}
Annotated(role) ==
    { i \in 1..Len(Markers) :
        /\ ~IsNull(Markers[i].label)
        /\ ~IsNull(ValueMatch(Val(Markers[i].label)))
        /\ Val(ValueMatch(Val(Markers[i].label))).type \in RoleWords(role) }
AnnotationDate(i) == MarkerDate(Val(Markers[i].label), now)
AnnotationValue(i) == parseFloat(Val(Markers[i].label).num)
Dated(role) == { i \in Annotated(role) : ~IsNull(AnnotationDate(i)) }
Qualifying(role) == { i \in Dated(role) : Val(AnnotationDate(i)) <= EndOfDay(now) }
LatestOf(set) ==
    { i \in set : \A j \in set : Val(AnnotationDate(j)) <= Val(AnnotationDate(i)) }
Roles == {"open", "completed"}

\* C7 as stated: for each role the chosen value is that of an annotation
\* whose date is the latest on or before the end of today; only when no
\* annotation qualifies it is that of the chronologically last annotation
\* found (the latest dated one, any when none is dated); an annotation dated
\* in the future is never chosen while a qualifying one exists
C7_Original ==
    pc = "done" =>
        \A role \in Roles :
            IF Annotated(role) = {} THEN IsNull(markerValues[role])
            ELSE IF Qualifying(role) # {}
            THEN \E i \in LatestOf(Qualifying(role)) :
                    markerValues[role] = Some(AnnotationValue(i))
            ELSE IF Dated(role) # {}
            THEN \E i \in LatestOf(Dated(role)) :
                    markerValues[role] = Some(AnnotationValue(i))
            ELSE \E i \in Annotated(role) : markerValues[role] = Some(AnnotationValue(i))

\* C7, the part that holds: the choice among qualifying annotations, and
\* the fallback read as the last annotation of the role in document order
C7_DocumentOrderFallback ==
    pc = "done" =>
        \A role \in Roles :
            IF Annotated(role) = {} THEN IsNull(markerValues[role])
            ELSE IF Qualifying(role) # {}
            THEN \E i \in LatestOf(Qualifying(role)) :
                    markerValues[role] = Some(AnnotationValue(i))
            ELSE \E i \in Annotated(role) :
                    /\ \A j \in Annotated(role) : j <= i
                    /\ markerValues[role] = Some(AnnotationValue(i))

\* C7 witness: a future annotation follows a qualifying one and the
\* qualifying one is chosen
C7_Witness ==
    /\ pc = "done"
    /\ \E i \in Qualifying("completed") :
          /\ \E j \in Dated("completed") \ Qualifying("completed") : j > i
          /\ markerValues.completed = Some(AnnotationValue(i))

(***************************************************************************)
(* Inputs of extractDateRangeFromLabels: up to MaxLabels axis labels, in   *)
(* the English form, in the Japanese form or without a date, read in 2025  *)
(* or in 2026.                                                             *)
(***************************************************************************)
MaxLabels == 3

AxisLabelInputs ==
    { Label("date", m, 0, 15, y, <<>>, "") :
        m \in {"Jan", "Nov", "DEC", "Xyz"}, y \in {Null, Some(2025), Some(2026)} }
    \cup { Label("jpdate", "", n, 3, y, <<>>, "") :
             n \in {2, 12}, y \in {Null, Some(2026)} }
    \cup { Label("name", "Iteration", 0, 1, Null, <<>>, "") }

InitDateRange ==
    /\ pc = "ready"
    /\ now \in { DateToTick(2025, 5, 10), DateToTick(2026, 0, 28) }
    /\ document = [svg |-> Null, pageText |-> [form |-> "none"]]
    /\ zoneEast = FALSE
    /\ chartResult = [outcome |-> "none", value |-> Null]
    /\ markerValues = [open |-> Null, completed |-> Null]
    /\ chartType = "unknown"
    /\ \E k \in 0..MaxLabels : axisLabels \in [1..k -> AxisLabelInputs]
    /\ labelRange = Null
    /\ VelocityIdle
    /\ PredictionIdle
    /\ PathIdle
    /\ ExtraIdle

ExtractDateRangeFromLabels ==
    /\ pc = "ready"
    /\ labelRange' = extractDateRangeFromLabels(axisLabels, now)
    /\ pc' = "done"
    /\ UNCHANGED extraVars
    /\ UNCHANGED <<now, document, zoneEast, chartResult, markerValues, chartType,
                   axisLabels, velocityVars, predictionVars, pathVars>>

NextDateRange == ExtractDateRangeFromLabels

SpecDateRange == InitDateRange /\ [][NextDateRange]_vars

\* what an axis label says: whether it can be read, its month number and
\* its year when it is written
MonthNumbers ==
    [Jan |-> 0, Feb |-> 1, Mar |-> 2, Apr |-> 3, May |-> 4, Jun |-> 5,
     Jul |-> 6, Aug |-> 7, Sep |-> 8, Oct |-> 9, Nov |-> 10, Dec |-> 11, DEC |-> 11]
Parsable(text) ==
    \/ text.headKind = "jpdate"
    \/ text.headKind = "date" /\ text.mon \in DOMAIN MonthNumbers
MonthOf(text) ==
    IF text.headKind = "jpdate" THEN text.monNum - 1 ELSE MonthNumbers[text.mon]
FirstLabel == axisLabels[1]
LastLabel == axisLabels[Len(axisLabels)]
CurrentYear == IF now >= DateToTick(2026, 0, 1) THEN 2026 ELSE 2025
ExpectedEndYear == IF IsNull(LastLabel.year) THEN CurrentYear ELSE Val(LastLabel.year)
ExpectedStartYear ==
    IF ~IsNull(FirstLabel.year) THEN Val(FirstLabel.year)
    ELSE IF MonthOf(FirstLabel) > MonthOf(LastLabel) THEN ExpectedEndYear - 1
    ELSE ExpectedEndYear

\* C9: for parsable first and last labels the range starts in the first
\* label's explicit year, else in the last label's year, or the year before
\* it when the first label has no year and a greater month number; it ends
\* in the last label's explicit year, else in the current year.  The result
\* is null for an empty list and when either end label is unparsable.
C9_YearInference ==
    pc = "done" =>
        IF Len(axisLabels) = 0 \/ ~Parsable(FirstLabel) \/ ~Parsable(LastLabel)
        THEN IsNull(labelRange)
        ELSE labelRange
               = Some([start |-> DateToTick(ExpectedStartYear, MonthOf(FirstLabel),
                                            FirstLabel.day),
                       end |-> DateToTick(ExpectedEndYear, MonthOf(LastLabel),
                                          LastLabel.day)])

\* C9 witness: labels without years that run from November to January put
\* the start in the year before the current one
C9_Witness ==
    /\ pc = "done"
    /\ Len(axisLabels) >= 2
    /\ FirstLabel.headKind = "date" /\ FirstLabel.mon = "Nov" /\ IsNull(FirstLabel.year)
    /\ LastLabel.headKind = "date" /\ LastLabel.mon = "Jan" /\ IsNull(LastLabel.year)
    /\ now = DateToTick(2026, 0, 28)
    /\ labelRange = Some([start |-> DateToTick(2025, 10, 15),
                          end |-> DateToTick(2026, 0, 15)])

(***************************************************************************)
(* Inputs of detectChartType: no chart root, or a root with up to          *)
(* MaxSeries series, each with or without an area path and a graph path,   *)
(* and up to MaxColumns point markers.                                     *)
(***************************************************************************)
MaxSeries == 2
MaxColumns == 2

Command(op, args) == [op |-> op, sep |-> " ", args |-> args]
ColumnPath ==
    <<Command("M", <<1, 4>>), Command("L", <<2, 4>>), Command("L", <<2, 2>>),
      Command("L", <<1, 2>>), Command("Z", <<>>)>>
CirclePath ==
    <<Command("M", <<2, 3>>), Command("A", <<1, 1, 0, 1, 1, 2, 2>>), Command("Z", <<>>)>>
RisingPath == <<Command("M", <<0, 4>>), Command("L", <<2, 2, 4, 0>>)>>
FlatPath == <<Command("M", <<0, 4>>), Command("L", <<2, 3>>), Command("L", <<4, 3>>)>>

ShapeInputs == {Null, Some(ColumnPath), Some(CirclePath)}
ColumnLabelInputs ==
    { Null,
      Some(Label("name", "Iteration", 0, 1, Null, <<"8">>, "")),
      Some(Label("name", "Sprint", 0, 5, Null, <<"1", "3">>, "Done")),
      Some(Label("name", "Sprint", 0, 6, Null, <<>>, "")),
      Some(Label("date", "Jan", 0, 27, Null, <<"4", "8">>, "kanryo")) }
ColumnInputs == { [d |-> shape, label |-> label] :
                    shape \in ShapeInputs, label \in ColumnLabelInputs }
GroupInputs == { [area |-> a, graph |-> g] :
                   a \in {Null, Some(RisingPath)}, g \in {Null, Some(FlatPath)} }

InitClassify ==
    /\ pc = "ready"
    /\ now = DateToTick(2026, 0, 28)
    /\ \/ document = [svg |-> Null, pageText |-> [form |-> "none"]]
       \/ \E n \in 0..MaxSeries, k \in 0..MaxColumns :
             \E series \in [1..n -> GroupInputs], points \in [1..k -> ColumnInputs] :
                document = [svg |-> Some(SvgWith(Null, <<>>, <<>>, <<>>, series, points)),
                            pageText |-> [form |-> "none"]]
    /\ zoneEast = FALSE
    /\ chartResult = [outcome |-> "none", value |-> Null]
    /\ markerValues = [open |-> Null, completed |-> Null]
    /\ chartType = "unknown"
    /\ axisLabels = <<>>
    /\ labelRange = Null
    /\ VelocityIdle
    /\ PredictionIdle
    /\ PathIdle
    /\ ExtraIdle

DetectChartType ==
    /\ pc = "ready"
    /\ chartType' = detectChartType(document.svg)
    /\ pc' = "done"
    /\ UNCHANGED extraVars
    /\ UNCHANGED <<now, document, zoneEast, chartResult, markerValues, axisLabels,
                   labelRange, velocityVars, predictionVars, pathVars>>

NextClassify == DetectChartType

SpecClassify == InitClassify /\ [][NextClassify]_vars

\* what the chart fragment holds
Root == Val(document.svg)
HasAreaPath == \E i \in 1..Len(Root.series) : ~IsNull(Root.series[i].area)
HasGraphPath == \E i \in 1..Len(Root.series) : ~IsNull(Root.series[i].graph)
FirstMarkerIsColumn ==
    /\ Len(Root.points) > 0
    /\ ~IsNull(Root.points[1].d)
    /\ \E i \in 1..Len(Val(Root.points[1].d)) : Val(Root.points[1].d)[i].op = "L"
    /\ \E i \in 1..Len(Val(Root.points[1].d)) : Val(Root.points[1].d)[i].op = "Z"
    /\ ~IsNull(Root.points[1].label)
    /\ IterationPattern(Val(Root.points[1].label))

\* C8: detectChartType returns one of the three labels, decided by the
\* first rule that applies: an area path gives burnup; otherwise a first
\* marker drawn with both L and Z whose annotation matches the iteration
\* pattern gives velocity; otherwise a graph path gives burnup; otherwise
\* the chart is unknown
C8_FirstRuleDecides ==
    pc = "done" =>
        /\ chartType \in {"burnup", "velocity", "unknown"}
        /\ chartType = IF IsNull(document.svg) THEN "unknown"
                       ELSE IF HasAreaPath THEN "burnup"
                       ELSE IF FirstMarkerIsColumn THEN "velocity"
                       ELSE IF HasGraphPath THEN "burnup"
                       ELSE "unknown"

\* C8 witness: an area path wins over column markers with an iteration
\* annotation
C8_Witness ==
    /\ pc = "done"
    /\ ~IsNull(document.svg)
    /\ HasAreaPath
    /\ FirstMarkerIsColumn
    /\ chartType = "burnup"

\* C8 witness: column markers win over a graph path
C8_WitnessVelocity ==
    /\ pc = "done"
    /\ ~IsNull(document.svg)
    /\ ~HasAreaPath
    /\ HasGraphPath
    /\ FirstMarkerIsColumn
    /\ chartType = "velocity"

(***************************************************************************)
(* Inputs of extractFromSVG: a page read on 28 January 2026, without chart *)
(* root or with a root made of a background rectangle (absent, 4 by 4, or  *)
(* without width and height), x-axis labels (none, or 26 to 30 January),   *)
(* y-axis labels (none, or 0 and 2), a legend, up to MaxSeries series and  *)
(* one of a few sets of point markers.                                     *)
(***************************************************************************)
BackgroundInputs ==
    { Null,
      Some([plotLeft |-> 0, plotTop |-> 0, plotWidth |-> 4, plotHeight |-> 4]),
      Some([plotLeft |-> 4, plotTop |-> 0, plotWidth |-> 0, plotHeight |-> 0]) }
XLabelInputs ==
    { <<>>,
      <<Label("date", "Jan", 0, 26, Null, <<>>, ""),
        Label("date", "Jan", 0, 30, Null, <<>>, "")>> }
YLabelInputs == { <<>>, << <<"0">>, <<"2">> >> }
LegendInputs == { <<>>, <<"Completed", "Open">>, <<"Open", "Completed">> }
Annotation(day, num, tail) ==
    [d |-> Some(CirclePath), label |-> Some(Label("date", "Jan", 0, day, Null, num, tail))]
PointInputs ==
    { <<>>,
      <<Annotation(27, <<"4", "8">>, "Completed"), Annotation(27, <<"1", "1", "8">>, "Open")>>,
      <<Annotation(27, <<"7">>, "Completed")>>,
      <<Annotation(27, <<"5">>, "Open")>>,
      <<Annotation(27, <<".">>, "Completed")>>,
      <<[d |-> Some(ColumnPath),
         label |-> Some(Label("name", "Iteration", 0, 1, Null, <<"8">>, ""))],
        [d |-> Some(ColumnPath),
         label |-> Some(Label("name", "Iteration", 0, 2, Null, <<".">>, "Done"))]>> }
PageTextInputs ==
    { [form |-> "none"],
      [form |-> "en",
       first |-> Label("date", "Jan", 0, 26, Null, <<>>, ""),
       last |-> Label("date", "Jan", 0, 30, Null, <<>>, "")] }

InitExtract ==
    /\ pc = "ready"
    /\ now = DateToTick(2026, 0, 28)
    /\ \E pageText \in PageTextInputs :
          \/ document = [svg |-> Null, pageText |-> pageText]
          \/ \E background \in BackgroundInputs, xLabels \in XLabelInputs,
                yLabels \in YLabelInputs, legend \in LegendInputs,
                points \in PointInputs, n \in 0..MaxSeries :
                \E series \in [1..n -> GroupInputs] :
                   document = [svg |-> Some(SvgWith(background, xLabels, yLabels, legend,
                                                    series, points)),
                               pageText |-> pageText]
    /\ zoneEast \in BOOLEAN
    /\ chartResult = [outcome |-> "none", value |-> Null]
    /\ markerValues = [open |-> Null, completed |-> Null]
    /\ chartType = "unknown"
    /\ axisLabels = <<>>
    /\ labelRange = Null
    /\ VelocityIdle
    /\ PredictionIdle
    /\ PathIdle
    /\ ExtraIdle

ExtractFromSVG ==
    /\ pc = "ready"
    /\ chartResult' = extractFromSVG(document, now, zoneEast)
    /\ pc' = "done"
    /\ UNCHANGED extraVars
    /\ UNCHANGED <<now, document, zoneEast, markerValues, chartType, axisLabels,
                   labelRange, velocityVars, predictionVars, pathVars>>

NextExtract == ExtractFromSVG

SpecExtract == InitExtract /\ [][NextExtract]_vars

\* a burnup result was returned
BurnupReturned ==
    /\ pc = "done"
    /\ chartResult.outcome = "returned"
    /\ ~IsNull(chartResult.value)
    /\ Val(chartResult.value).chartType = "burnup"
Burnup == Val(chartResult.value)
GroundTruth == extractValuesFromPointMarkers(Root.points, now)

\* C5: when the annotations yield both an open and a completed value, the
\* burnup result reports completed = the completed annotation value and
\* total = open + completed, whatever the point clouds are
C5_AnnotationsDecide ==
    (BurnupReturned /\ ~IsNull(GroundTruth.open) /\ ~IsNull(GroundTruth.completed))
        => /\ Burnup.completed = Val(GroundTruth.completed)
           /\ Burnup.total = Plus(Val(GroundTruth.open), Val(GroundTruth.completed))

\* C5 witness: open = 118 and completed = 48 give total = 166 over clouds
\* that end at other values
C5_Witness ==
    /\ BurnupReturned
    /\ GroundTruth = [open |-> Some(118 * ValueScale), completed |-> Some(48 * ValueScale)]
    /\ Burnup.total = 166 * ValueScale
    /\ Burnup.completed = 48 * ValueScale
    /\ Len(Burnup.completedData) > 0
    /\ Len(Burnup.openData) > 0
    /\ Burnup.completedData[Len(Burnup.completedData)].value
         # Burnup.openData[Len(Burnup.openData)].value

\* completed <= total, false as soon as one side is NaN
AtMost(a, b) == ~isNaN(a) /\ ~isNaN(b) /\ a <= b

\* C6 as stated: every burnup result with total > 0 has completed <= total
C6_Original ==
    (BurnupReturned /\ Greater(Burnup.total, 0)) => AtMost(Burnup.completed, Burnup.total)

\* C6 for results whose completed value is a number
C6_WhenCompletedIsNumber ==
    (BurnupReturned /\ Greater(Burnup.total, 0) /\ ~isNaN(Burnup.completed))
        => AtMost(Burnup.completed, Burnup.total)

\* the consistency correction acted: the clouds changed places
C6_SwapReached ==
    /\ BurnupReturned
    /\ Root.legend = <<"Open", "Completed">>
    /\ Len(Root.series) = 2
    /\ Burnup.openData # <<>>
    /\ Burnup.completedData # Burnup.openData
    /\ Burnup.completedStartPixel # Null
    /\ Burnup.total > Burnup.completed
    /\ IsNull(GroundTruth.open) /\ IsNull(GroundTruth.completed)

\* C15 as stated: extractFromSVG returns a result or null for every markup,
\* also for a plot rectangle without width and height; it never ends with
\* an exception
C15_Original ==
    pc = "done" => chartResult.outcome = "returned"

\* the exception of sampleByDay is reached only on a plot rectangle of
\* width 0 under axis labels that give a date range
C15_ThrowsOnlyWithoutWidth ==
    (pc = "done" /\ chartResult.outcome = "threw")
        => /\ PlotBoxOf(Root).plotWidth = 0
           /\ ~IsNull(extractDateRangeFromLabels(Root.xLabels, now))
           /\ \E k \in 1..Len(Root.series) : ~IsNull(Root.series[k].graph)
                                               \/ ~IsNull(Root.series[k].area)

\* extractFromSVG ended with an exception
C15_Threw ==
    /\ pc = "done"
    /\ chartResult.outcome = "threw"

C16_WitnessBurnup ==
    /\ pc = "done"
    /\ ~IsNull(document.svg)
    /\ IsNull(Root.plotBackground)
    /\ detectChartType(document.svg) = "burnup"
    /\ Len(Root.series) = 2
    /\ chartResult = [outcome |-> "returned", value |-> Null]

\* C16 witness of the empty result: markers and legend, no series container
C16_WitnessNoSeries ==
    /\ BurnupReturned
    /\ Root.series = <<>>
    /\ Root.points # <<>>
    /\ Root.legend # <<>>
    /\ Burnup.completedData = <<>>

(***************************************************************************)
(* extractFromSVG called twice on the same page: the markup and the time   *)
(* zone stay as they are, the clock may advance by up to MaxClockSteps     *)
(* ticks between the two calls (they stay within the same day).            *)
(***************************************************************************)
MaxClockSteps == 1

InitRepeat == InitExtract

ExtractFirst ==
    /\ pc = "ready"
    /\ chartResult' = extractFromSVG(document, now, zoneEast)
    /\ pc' = "called"
    /\ UNCHANGED <<now, document, zoneEast, markerValues, chartType, axisLabels,
                   labelRange, velocityVars, predictionVars, pathVars, extraVars>>

\* time passes between the two calls
ClockAdvance ==
    /\ pc = "called"
    /\ now < DateToTick(2026, 0, 28) + MaxClockSteps
    /\ now' = now + 1
    /\ UNCHANGED <<pc, velocityVars, predictionVars, pathVars, svgVars, extraVars>>

ExtractSecond ==
    /\ pc = "called"
    /\ secondResult' = extractFromSVG(document, now, zoneEast)
    /\ pc' = "done"
    /\ UNCHANGED <<now, velocityVars, predictionVars, pathVars, svgVars, handoffVars,
                   pollVars, averageVars, settingsVars,
                   processorVars,
                   lateVars>>

NextRepeat == ExtractFirst \/ ClockAdvance \/ ExtractSecond

SpecRepeat == InitRepeat /\ [][NextRepeat]_vars

\* C11 as stated: the two calls on unchanged markup return results equal
\* by value in every field, also when the axis labels give no date range
C11_Original ==
    pc = "done" => secondResult = chartResult

\* the axis labels of the page give a date range
LabelsGiveRange ==
    /\ ~IsNull(document.svg)
    /\ ~IsNull(extractDateRangeFromLabels(Root.xLabels, now))

\* C11 for pages whose axis labels give a date range: the two calls agree
C11_EqualWithDateRange ==
    (pc = "done" /\ LabelsGiveRange) => secondResult = chartResult

\* both calls returned a burnup result with the same totals, and the dates
\* of the completed series differ
C11_StampsDiffer ==
    /\ pc = "done"
    /\ BurnupReturned
    /\ secondResult.outcome = "returned"
    /\ ~IsNull(secondResult.value)
    /\ Val(secondResult.value).total = Burnup.total
    /\ Len(Burnup.completedData) > 0
    /\ Val(secondResult.value).completedData[1].date # Burnup.completedData[1].date

(***************************************************************************)
(* script-injector: injectBridgeScript                                     *)
(*                                                                         *)
(* The two versions of the function: "request" dispatches the request      *)
(* event and guards its callbacks with the flag resolved, "script" appends *)
(* the bridge script and guards the timer callback with the data received. *)
(* The detail of a response event is Null (no data) or Some(kind of        *)
(* chart).  The other side may dispatch up to MaxResponses response events *)
(* at any time after the call; the timer fires once.                       *)
(***************************************************************************)
MaxResponses == 3

InjectorVersions == {"request", "script"}
ResponseDetails == {Null, Some("burnup"), Some("velocity")}

\* resolve(v) of a promise: the first call settles it, later calls do nothing
Resolve(p, v) ==
    IF p.state = "pending" THEN [state |-> "fulfilled", value |-> v] ELSE p

\* the listener of the response event
OnResponse(version, p, flag, data, detail) ==
    IF version = "request"
    THEN IF flag THEN [promise |-> p, resolved |-> flag, heldData |-> data]
         ELSE [promise |-> Resolve(p, detail), resolved |-> TRUE, heldData |-> data]
    ELSE [promise |-> Resolve(p, detail), resolved |-> flag, heldData |-> detail]

\* the timer callback that sets the flag and forgets to resolve
OnTimeout_NoResolve(version, p, flag, data) ==
    IF version = "request"
    THEN [promise |-> p, resolved |-> TRUE, heldData |-> data]
    ELSE [promise |-> p, resolved |-> flag, heldData |-> data]

\* the callback of setTimeout
OnTimeout(version, p, flag, data) ==
    IF version = "request"
    THEN IF ~flag THEN [promise |-> Resolve(p, Null), resolved |-> TRUE, heldData |-> data]
         ELSE [promise |-> p, resolved |-> flag, heldData |-> data]
    ELSE IF IsNull(data) THEN [promise |-> Resolve(p, Null), resolved |-> flag,
                               heldData |-> data]
         ELSE [promise |-> p, resolved |-> flag, heldData |-> data]

InitHandoff ==
    /\ pc = "ready"
    /\ now = 0
    /\ injector \in InjectorVersions
    /\ promise = [state |-> "pending", value |-> Null]
    /\ resolved = FALSE
    /\ heldData = Null
    /\ listening = FALSE
    /\ requestsSent = 0
    /\ responseLog = <<>>
    /\ VelocityIdle
    /\ PredictionIdle
    /\ PathIdle
    /\ SvgIdle
    /\ RepeatIdle
    /\ PollIdle
    /\ AverageIdle
    /\ SettingsIdle
    /\ ProcessorIdle
    /\ LateIdle

\* the executor of the promise: the listener is registered, the request is
\* issued and the timer is armed
InjectBridgeScript ==
    /\ pc = "ready"
    /\ listening' = TRUE
    /\ requestsSent' = requestsSent + 1
    /\ pc' = "waiting"
    /\ UNCHANGED <<now, injector, promise, resolved, heldData, responseLog,
                   velocityVars, predictionVars, pathVars, svgVars, repeatVars, pollVars, averageVars,
                   settingsVars,
                   processorVars,
                   lateVars>>

\* a response event is dispatched on the window; the once-listener, when
\* still registered, runs and is removed
ResponseArrives ==
    /\ pc \in {"waiting", "done"}
    /\ Len(responseLog) < MaxResponses
    /\ \E detail \in ResponseDetails :
          /\ responseLog' = Append(responseLog, [detail |-> detail, late |-> pc = "done"])
          /\ IF listening
             THEN LET after == OnResponse(injector, promise, resolved, heldData, detail)
                  IN  /\ promise' = after.promise
                      /\ resolved' = after.resolved
                      /\ heldData' = after.heldData
             ELSE UNCHANGED <<promise, resolved, heldData>>
    /\ listening' = FALSE
    /\ UNCHANGED <<pc, now, injector, requestsSent,
                   velocityVars, predictionVars, pathVars, svgVars, repeatVars, pollVars, averageVars,
                   settingsVars,
                   processorVars,
                   lateVars>>

\* the timeout elapses
TimerFires ==
    /\ pc = "waiting"
    /\ LET after == OnTimeout(injector, promise, resolved, heldData)
       IN  /\ promise' = after.promise
           /\ resolved' = after.resolved
           /\ heldData' = after.heldData
    /\ pc' = "done"
    /\ UNCHANGED <<now, injector, listening, requestsSent, responseLog,
                   velocityVars, predictionVars, pathVars, svgVars, repeatVars, pollVars, averageVars,
                   settingsVars,
                   processorVars,
                   lateVars>>

NextHandoff == InjectBridgeScript \/ ResponseArrives \/ TimerFires

\* the event loop runs a call that was made and a timer that was armed
SpecHandoff ==
    InitHandoff /\ [][NextHandoff]_vars
        /\ WF_vars(InjectBridgeScript) /\ WF_vars(TimerFires)

\* the responses that arrived before the timeout
InTime == SelectSeq(responseLog, LAMBDA r : ~r.late)

\* what the claim expects of the promise in the current state
ExpectedPromise ==
    IF InTime # <<>> THEN [state |-> "fulfilled", value |-> InTime[1].detail]
    ELSE IF pc = "done" THEN [state |-> "fulfilled", value |-> Null]
    ELSE [state |-> "pending", value |-> Null]

\* C13: every call issues one request and never another; its promise is
\* settled with the detail of the first response that arrives before the
\* timeout, otherwise with null once the timeout elapses; a settled promise
\* never changes, whatever arrives later; and a call never stays pending
C13_SettlesOnce ==
    /\ [](/\ promise = ExpectedPromise
          /\ requestsSent = (IF pc = "ready" THEN 0 ELSE 1))
    /\ [][promise.state = "fulfilled" => promise' = promise]_vars
    /\ [][requestsSent # 0 => requestsSent' = requestsSent]_vars
    /\ (pc = "waiting" ~> promise.state = "fulfilled")

\* C13 witness: the timeout settled the promise with null and a response
\* that arrived afterwards left it as it was
C13_Witness ==
    /\ pc = "done"
    /\ responseLog # <<>>
    /\ responseLog[1].late
    /\ ~IsNull(responseLog[1].detail)
    /\ promise = [state |-> "fulfilled", value |-> Null]
    /\ requestsSent = 1

\* C13 witness of the other case: a response in time, then the timeout
C13_WitnessInTime ==
    /\ pc = "done"
    /\ Len(responseLog) >= 2
    /\ ~responseLog[1].late
    /\ responseLog[2].detail # responseLog[1].detail
    /\ promise = [state |-> "fulfilled", value |-> responseLog[1].detail]

(***************************************************************************)
(* svg-extractor: waitAndSend                                              *)
(*                                                                         *)
(* One invocation of waitAndSend.  The page may change between two         *)
(* attempts: it has no chart root, a root without series or points, a      *)
(* burnup chart on a 4 by 4 plot rectangle, the same chart on a rectangle  *)
(* without width and height, or a column chart.                            *)
(***************************************************************************)
MAX_ATTEMPTS == 20
RETRY_INTERVAL_MS == 500

JanuaryLabels ==
    <<Label("date", "Jan", 0, 26, Null, <<>>, ""),
      Label("date", "Jan", 0, 30, Null, <<>>, "")>>
PollBackgrounds ==
    { Some([plotLeft |-> 0, plotTop |-> 0, plotWidth |-> 4, plotHeight |-> 4]),
      Some([plotLeft |-> 4, plotTop |-> 0, plotWidth |-> 0, plotHeight |-> 0]) }
PollDocuments ==
    { [svg |-> root, pageText |-> [form |-> "none"]] :
        root \in {Null}
            \cup { Some(SvgWith(background, JanuaryLabels, << <<"0">>, <<"2">> >>, <<>>,
                                series, <<>>)) :
                     background \in PollBackgrounds,
                     series \in { <<>>, <<[area |-> Null, graph |-> Some(RisingPath)]>> } }
            \cup { Some(SvgWith(Null, <<>>, <<>>, <<>>, <<>>,
                                <<[d |-> Some(ColumnPath),
                                   label |-> Some(Label("name", "Iteration", 0, 1, Null,
                                                        <<"8">>, ""))]>>)) } }

hasSeriesGroups(dom) == ~IsNull(dom.svg) /\ Len(Val(dom.svg).series) > 0
hasColumnPoints(dom) == ~IsNull(dom.svg) /\ Len(Val(dom.svg).points) > 0

\* the poll that gives up one attempt early
attempt_OneShort(n, dom) ==
    IF hasSeriesGroups(dom) \/ hasColumnPoints(dom) THEN "send"
    ELSE IF n + 1 < MAX_ATTEMPTS - 1 THEN "retry"
    ELSE "send"

\* the decision of attempt() once attempts++ made the counter n + 1
attempt(n, dom) ==
    IF hasSeriesGroups(dom) \/ hasColumnPoints(dom) THEN "send"
    ELSE IF n + 1 < MAX_ATTEMPTS THEN "retry"
    ELSE "send"

\* attempt(): the counter, then sendData() or setTimeout(attempt); an
\* exception of extractFromSVG leaves sendData before dispatchEvent
RunAttempt ==
    /\ attempts' = attempts + 1
    /\ presentAt' = IF hasSeriesGroups(document) \/ hasColumnPoints(document)
                    THEN presentAt \cup {attempts + 1} ELSE presentAt
    /\ IF attempt(attempts, document) = "retry"
       THEN /\ retryPending' = TRUE
            /\ pc' = "polling"
            /\ UNCHANGED <<dispatched, sendThrew>>
       ELSE /\ retryPending' = FALSE
            /\ pc' = "done"
            /\ LET data == extractFromSVG(document, now, zoneEast)
               IN  IF data.outcome = "threw"
                   THEN /\ sendThrew' = TRUE
                        /\ UNCHANGED dispatched
                   ELSE /\ dispatched' = Append(dispatched,
                                                [attempt |-> attempts + 1,
                                                 detail |-> data.value])
                        /\ UNCHANGED sendThrew

InitPoll ==
    /\ pc = "ready"
    /\ now = DateToTick(2026, 0, 28)
    /\ document \in PollDocuments
    /\ zoneEast = FALSE
    /\ chartResult = [outcome |-> "none", value |-> Null]
    /\ markerValues = [open |-> Null, completed |-> Null]
    /\ chartType = "unknown"
    /\ axisLabels = <<>>
    /\ labelRange = Null
    /\ PollIdle
    /\ VelocityIdle
    /\ PredictionIdle
    /\ PathIdle
    /\ RepeatIdle
    /\ HandoffIdle
    /\ AverageIdle
    /\ SettingsIdle
    /\ ProcessorIdle
    /\ LateIdle

\* the request event arrives: waitAndSend() runs its first attempt
WaitAndSend ==
    /\ pc = "ready"
    /\ RunAttempt
    /\ UNCHANGED <<now, elapsedMs, velocityVars, predictionVars, pathVars, svgVars,
                   repeatVars, handoffVars, averageVars, settingsVars,
                   processorVars,
                   lateVars>>

\* the page renders or changes while the poll waits
MarkupChanges ==
    /\ pc = "polling"
    /\ document' \in PollDocuments \ {document}
    /\ UNCHANGED <<pc, now, zoneEast, chartResult, markerValues, chartType, axisLabels,
                   labelRange, velocityVars, predictionVars, pathVars, repeatVars,
                   handoffVars, pollVars, averageVars, settingsVars,
                   processorVars,
                   lateVars>>

\* the timer of setTimeout(attempt, RETRY_INTERVAL_MS) fires
RetryFires ==
    /\ pc = "polling"
    /\ retryPending
    /\ elapsedMs' = elapsedMs + RETRY_INTERVAL_MS
    /\ RunAttempt
    /\ UNCHANGED <<now, velocityVars, predictionVars, pathVars, svgVars,
                   repeatVars, handoffVars, averageVars, settingsVars,
                   processorVars,
                   lateVars>>

NextPoll == WaitAndSend \/ MarkupChanges \/ RetryFires

\* the event loop runs the call and every timer that was set
SpecPoll ==
    InitPoll /\ [][NextPoll]_vars /\ WF_vars(WaitAndSend) /\ WF_vars(RetryFires)

FirstPresent == CHOOSE k \in presentAt : \A j \in presentAt : k <= j

\* C14 as stated: every invocation ends, after at most 20 attempts 500 ms
\* apart, with exactly one response event dispatched, at the first attempt
\* that finds series or point markup or else at attempt 20, carrying what
\* extractFromSVG returns then
C14_Original ==
    /\ [](/\ attempts <= MAX_ATTEMPTS
          /\ Len(dispatched) <= 1
          /\ pc # "ready" => elapsedMs = (attempts - 1) * RETRY_INTERVAL_MS
          /\ pc = "done" =>
               /\ Len(dispatched) = 1
               /\ dispatched[1].attempt = attempts
               /\ dispatched[1].detail = extractFromSVG(document, now, zoneEast).value
               /\ attempts = (IF presentAt # {} THEN FirstPresent ELSE MAX_ATTEMPTS))
    /\ <>(pc = "done")

\* C14 for invocations whose extraction does not end with an exception:
\* exactly one response, at the first attempt that finds markup or at
\* attempt 20; and every invocation ends after at most 20 attempts
C14_OneResponseUnlessThrown ==
    /\ [](/\ attempts <= MAX_ATTEMPTS
          /\ Len(dispatched) <= 1
          /\ pc # "ready" => elapsedMs = (attempts - 1) * RETRY_INTERVAL_MS
          /\ pc = "done" =>
               /\ attempts = (IF presentAt # {} THEN FirstPresent ELSE MAX_ATTEMPTS)
               /\ sendThrew <=> extractFromSVG(document, now, zoneEast).outcome = "threw"
               /\ sendThrew => dispatched = <<>>
               /\ ~sendThrew =>
                    /\ Len(dispatched) = 1
                    /\ dispatched[1].attempt = attempts
                    /\ dispatched[1].detail
                         = extractFromSVG(document, now, zoneEast).value)
    /\ <>(pc = "done")

\* the poll ended without a response: markup appeared at a later attempt
\* and its extraction ended with an exception
C14_NoResponse ==
    /\ pc = "done"
    /\ attempts > 1
    /\ sendThrew
    /\ dispatched = <<>>

\* the poll gave up at attempt 20 and sent what extractFromSVG returned
C14_GaveUp ==
    /\ pc = "done"
    /\ attempts = MAX_ATTEMPTS
    /\ presentAt = {}
    /\ Len(dispatched) = 1

(***************************************************************************)
(* average-calculator: calculateAverageVelocity                            *)
(*                                                                         *)
(* An iteration record is [name, estimate], the estimate in units of       *)
(* 1/ValueScale; names may repeat in the record list and in the selection. *)
(* A list that is absent reads like the empty list.  The average is the    *)
(* fraction total/count.                                                   *)
(***************************************************************************)
MaxIterations == 3
MaxSelected == 2

NamePool == {"Sprint 1", "Sprint 2", "Sprint 3"}
EstimatePool == {0, 5, 13}
IterationPool == [name : NamePool, estimate : EstimatePool]

\* selectedNames.includes(name)
Includes(names, name) == \E j \in 1..Len(names) : names[j] = name

\* reduce((sum, iter) => sum + iter.estimate, 0)
RECURSIVE SumEstimates(_)
SumEstimates(selected) ==
    IF selected = <<>> THEN 0
    ELSE Head(selected).estimate + SumEstimates(Tail(selected))

\* the average taken over the number of selected names
calculateAverageVelocity_PerName(iters, names) ==
    IF Len(iters) = 0 \/ Len(names) = 0 THEN NoAverage
    ELSE LET chosen(iter) == Includes(names, iter.name)
             selectedIterations == SelectSeq(iters, chosen)
         IN  IF Len(selectedIterations) = 0 THEN NoAverage
             ELSE [average |-> Some(Rat(SumEstimates(selectedIterations), Len(names))),
                   count |-> Len(names),
                   total |-> SumEstimates(selectedIterations),
                   selectedIterations |-> selectedIterations]

calculateAverageVelocity(iters, names) ==
    IF Len(iters) = 0 \/ Len(names) = 0 THEN NoAverage
    ELSE LET chosen(iter) == Includes(names, iter.name)
             selectedIterations == SelectSeq(iters, chosen)
         IN  IF Len(selectedIterations) = 0 THEN NoAverage
             ELSE [average |-> Some(Rat(SumEstimates(selectedIterations),
                                        Len(selectedIterations))),
                   count |-> Len(selectedIterations),
                   total |-> SumEstimates(selectedIterations),
                   selectedIterations |-> selectedIterations]

InitAverage ==
    /\ pc = "ready"
    /\ now = 0
    /\ \E k \in 0..MaxIterations : currentIterations \in [1..k -> IterationPool]
    /\ \E k \in 0..MaxSelected : currentSelectedNames \in [1..k -> NamePool]
    /\ averageResult = NoAverage
    /\ VelocityIdle
    /\ PredictionIdle
    /\ PathIdle
    /\ SvgIdle
    /\ RepeatIdle
    /\ HandoffIdle
    /\ PollIdle
    /\ SettingsIdle
    /\ ProcessorIdle
    /\ LateIdle

CalculateAverageVelocity ==
    /\ pc = "ready"
    /\ averageResult' = calculateAverageVelocity(currentIterations,
                                                 currentSelectedNames)
    /\ pc' = "done"
    /\ UNCHANGED <<now, currentIterations, currentSelectedNames, velocityVars,
                   predictionVars, pathVars, svgVars, repeatVars, handoffVars, pollVars,
                   settingsVars,
                   processorVars,
                   lateVars>>

NextAverage == CalculateAverageVelocity

SpecAverage == InitAverage /\ [][NextAverage]_vars

\* the positions of the records whose name is selected, and the sum of
\* their estimates
SelectedRecords == { i \in 1..Len(currentIterations) :
                       \E j \in 1..Len(currentSelectedNames) :
                          currentSelectedNames[j] = currentIterations[i].name }
RECURSIVE EstimateSum(_)
EstimateSum(positions) ==
    IF positions = {} THEN 0
    ELSE LET i == CHOOSE k \in positions : TRUE
         IN  currentIterations[i].estimate + EstimateSum(positions \ {i})

\* C17: the average is the sum of the estimates of the records whose name
\* is selected divided by the number of those records, with count and
\* total consistent (average * count = total); the average is null with
\* count 0 when there is no record, no selected name, or no record with a
\* selected name
C17_AverageOfSelected ==
    pc = "done" =>
        IF SelectedRecords = {}
        THEN /\ IsNull(averageResult.average)
             /\ averageResult.count = 0
        ELSE /\ averageResult.count = Cardinality(SelectedRecords)
             /\ averageResult.total = EstimateSum(SelectedRecords)
             /\ ~IsNull(averageResult.average)
             /\ Val(averageResult.average).den > 0
             /\ Val(averageResult.average).num * averageResult.count
                  = averageResult.total * Val(averageResult.average).den
             /\ RatEq(Val(averageResult.average),
                      Rat(EstimateSum(SelectedRecords), Cardinality(SelectedRecords)))

\* C17 witness: a name selected twice that two records carry, next to a
\* record that is not selected
C17_Witness ==
    /\ pc = "done"
    /\ Len(currentIterations) = 3
    /\ Cardinality(SelectedRecords) = 2
    /\ Len(currentSelectedNames) = 2
    /\ currentSelectedNames[1] = currentSelectedNames[2]
    /\ averageResult.total = 18
    /\ averageResult.average = Some(Rat(18, 2))

\* C17 witness of the null case: names selected that no record carries
C17_WitnessNoneFound ==
    /\ pc = "done"
    /\ Len(currentIterations) > 0
    /\ Len(currentSelectedNames) > 0
    /\ SelectedRecords = {}
    /\ averageResult = NoAverage

(***************************************************************************)
(* Inputs of extractFromColumnChart: a chart root with or without          *)
(* background rectangle, with or without y-axis labels, and up to MaxBars  *)
(* columns in drawing order; a column has no annotation, an annotation     *)
(* outside the grammar (no number), an annotation whose number is a lone   *)
(* dot, or a well-formed annotation with or without group segment.         *)
(***************************************************************************)
MaxBars == 3

BarLabelInputs ==
    ColumnLabelInputs
        \cup { Some(Label("name", "Sprint", 0, 7, Null, <<".">>, "Done")),
               Some(Label("name", "Sprint", 0, 8, Null, <<"1", ".", "5">>, "")) }
BarInputs == { [d |-> Some(ColumnPath), label |-> label] : label \in BarLabelInputs }

InitColumns ==
    /\ pc = "ready"
    /\ now = DateToTick(2026, 0, 28)
    /\ \E background \in {Null, Some([plotLeft |-> 0, plotTop |-> 0, plotWidth |-> 4,
                                      plotHeight |-> 4])},
          yLabels \in YLabelInputs, n \in 0..MaxBars :
          \E bars \in [1..n -> BarInputs] :
             document = [svg |-> Some(SvgWith(background, <<>>, yLabels, <<>>, <<>>, bars)),
                         pageText |-> [form |-> "none"]]
    /\ zoneEast = FALSE
    /\ chartResult = [outcome |-> "none", value |-> Null]
    /\ markerValues = [open |-> Null, completed |-> Null]
    /\ chartType = "unknown"
    /\ axisLabels = <<>>
    /\ labelRange = Null
    /\ VelocityIdle
    /\ PredictionIdle
    /\ PathIdle
    /\ ExtraIdle

ExtractFromColumnChart ==
    /\ pc = "ready"
    /\ chartResult' = [outcome |-> "returned",
                       value |-> extractFromColumnChart(Val(document.svg))]
    /\ pc' = "done"
    /\ UNCHANGED <<now, document, zoneEast, markerValues, chartType, axisLabels,
                   labelRange, velocityVars, predictionVars, pathVars, extraVars>>

NextColumns == ExtractFromColumnChart

SpecColumns == InitColumns /\ [][NextColumns]_vars

\* the annotation of column i matches "<name>, <number>. [<group>.]" and
\* its number starts with <digits> or .<digits>
Bars == Root.points
WellFormed(i) ==
    /\ ~IsNull(Bars[i].label)
    /\ Val(Bars[i].label).num # <<>>
    /\ \/ Val(Bars[i].label).num[1] \in Digits
       \/ /\ Len(Val(Bars[i].label).num) >= 2
          /\ Val(Bars[i].label).num[1] = "."
          /\ Val(Bars[i].label).num[2] \in Digits
Records == Val(chartResult.value).iterations

\* C18: the result holds one record per column whose annotation matches
\* the grammar with a numeric estimate and none for any other column; the
\* records come in strictly increasing index, the index of a record is the
\* position of its column in drawing order, and a record has a group name
\* only when the annotation has a group segment
C18_RecordPerColumn ==
    (pc = "done" /\ ~IsNull(chartResult.value)) =>
        /\ Len(Records) = Cardinality({ i \in 1..Len(Bars) : WellFormed(i) })
        /\ \A k \in 1..Len(Records) :
              LET i == Records[k].index + 1
              IN  /\ i \in 1..Len(Bars)
                  /\ WellFormed(i)
                  /\ Records[k].name.mon = Val(Bars[i].label).mon
                  /\ Records[k].name.day = Val(Bars[i].label).day
                  /\ Records[k].estimate = parseFloat(Val(Bars[i].label).num)
                  /\ IsNull(Records[k].groupName) <=> Val(Bars[i].label).tail = ""
                  /\ ~IsNull(Records[k].groupName)
                       => Val(Records[k].groupName) = Val(Bars[i].label).tail
        /\ \A k \in 1..(Len(Records) - 1) : Records[k].index < Records[k + 1].index

\* C18 witness: three columns, the middle one dropped for its estimate, the
\* outer ones kept under the indices 0 and 2
C18_Witness ==
    /\ pc = "done"
    /\ ~IsNull(chartResult.value)
    /\ Len(Bars) = 3
    /\ WellFormed(1) /\ ~WellFormed(2) /\ WellFormed(3)
    /\ ~IsNull(Bars[2].label)
    /\ Val(Bars[2].label).num = <<".">>
    /\ Len(Records) = 2
    /\ Records[1].index = 0
    /\ Records[2].index = 2
    /\ IsNull(Records[1].groupName)
    /\ ~IsNull(Records[2].groupName)

(***************************************************************************)
(* burnup settings: getLookbackDays and setLookbackDays                    *)
(*                                                                         *)
(* The storage holds, under the key of the lookback setting, nothing       *)
(* (Undefined) or any value that some writer left there.  Up to MaxSets    *)
(* calls of setLookbackDays are made with any argument, then one call of   *)
(* getLookbackDays; every access to the storage may fail.                  *)
(***************************************************************************)
MaxSets == 2

DEFAULT_LOOKBACK_DAYS == 21

\* 0, 0.9, 1, 1.5, 21, 30, 365, 365.5, 366 and NaN
NumberInputs == {0, 9, 10, 15, 210, 300, 3650, 3655, 3660, NaN}
StoredInputs ==
    {Undefined, JsString("21"), JsString("abc")} \cup { JsNumber(n) : n \in NumberInputs }

\* a < b and a > b of two numbers: false as soon as one side is NaN
Less(a, b) == ~isNaN(a) /\ ~isNaN(b) /\ a < b
AtLeast(a, b) == ~isNaN(a) /\ ~isNaN(b) /\ a >= b

\* typeof days === 'number' && days >= 1 && days <= 365
AcceptedOnRead(days) ==
    /\ days.type = "number"
    /\ AtLeast(days.val, 1 * ValueScale)
    /\ AtLeast(365 * ValueScale, days.val)

\* typeof days !== 'number' || days < 1 || days > 365
RefusedOnWrite(days) ==
    \/ days.type # "number"
    \/ Less(days.val, 1 * ValueScale)
    \/ Greater(days.val, 365 * ValueScale)

\* the read that hands back whatever number is stored
getLookbackDays_AnyNumber(stored, readFails) ==
    IF readFails THEN [outcome |-> "resolved", value |-> JsNumber(DEFAULT_LOOKBACK_DAYS * ValueScale)]
    ELSE IF stored.type = "number" THEN [outcome |-> "resolved", value |-> stored]
    ELSE [outcome |-> "resolved", value |-> JsNumber(DEFAULT_LOOKBACK_DAYS * ValueScale)]

\* getLookbackDays: stored is result[storageKey]; a failed read is caught
getLookbackDays(stored, readFails) ==
    IF readFails THEN [outcome |-> "resolved", value |-> JsNumber(DEFAULT_LOOKBACK_DAYS * ValueScale)]
    ELSE IF AcceptedOnRead(stored) THEN [outcome |-> "resolved", value |-> stored]
    ELSE [outcome |-> "resolved", value |-> JsNumber(DEFAULT_LOOKBACK_DAYS * ValueScale)]

\* setLookbackDays: the validation throws before the storage is touched; a
\* failed write is logged and thrown again
setLookbackDays(days, writeFails) ==
    IF RefusedOnWrite(days) THEN [days |-> days, outcome |-> "rejected", wrote |-> FALSE]
    ELSE IF writeFails THEN [days |-> days, outcome |-> "rejected", wrote |-> FALSE]
    ELSE [days |-> days, outcome |-> "resolved", wrote |-> TRUE]

InitSettings ==
    /\ pc = "ready"
    /\ now = 0
    /\ storage \in StoredInputs
    /\ lookbackRead = [outcome |-> "none", value |-> Undefined]
    /\ lastSet = [days |-> Undefined, outcome |-> "none", wrote |-> FALSE]
    /\ settingsCalls = 0
    /\ VelocityIdle
    /\ PredictionIdle
    /\ PathIdle
    /\ SvgIdle
    /\ RepeatIdle
    /\ HandoffIdle
    /\ PollIdle
    /\ AverageIdle
    /\ ProcessorIdle
    /\ LateIdle

SetLookbackDays ==
    /\ pc = "ready"
    /\ settingsCalls < MaxSets
    /\ \E days \in StoredInputs, writeFails \in BOOLEAN :
          /\ lastSet' = setLookbackDays(days, writeFails)
          /\ storage' = IF lastSet'.wrote THEN days ELSE storage
    /\ settingsCalls' = settingsCalls + 1
    /\ UNCHANGED <<pc, now, lookbackRead, velocityVars, predictionVars, pathVars, svgVars,
                   repeatVars, handoffVars, pollVars, averageVars, processorVars,
                   lateVars>>

GetLookbackDays ==
    /\ pc = "ready"
    /\ \E readFails \in BOOLEAN :
          lookbackRead' = getLookbackDays(storage, readFails)
    /\ pc' = "done"
    /\ UNCHANGED <<now, storage, lastSet, settingsCalls, velocityVars, predictionVars,
                   pathVars, svgVars, repeatVars, handoffVars, pollVars, averageVars,
                   processorVars,
                   lateVars>>

NextSettings == SetLookbackDays \/ GetLookbackDays

SpecSettings == InitSettings /\ [][NextSettings]_vars

\* a whole number of days in 1..365
WholeDaysInRange(v) ==
    /\ v.type = "number"
    /\ ~isNaN(v.val)
    /\ v.val % ValueScale = 0
    /\ v.val >= 1 * ValueScale
    /\ v.val <= 365 * ValueScale
DefaultDays == JsNumber(DEFAULT_LOOKBACK_DAYS * ValueScale)

\* C19 as stated: getLookbackDays never rejects and yields an integer number
\* of days in 1..365, the stored value when that is one and the default 21
\* otherwise; setLookbackDays rejects every value outside 1..365 without
\* writing to the storage
C19_Original ==
    /\ pc = "done" =>
         /\ lookbackRead.outcome = "resolved"
         /\ WholeDaysInRange(lookbackRead.value)
         /\ lookbackRead.value \in {storage, DefaultDays}
         /\ ~WholeDaysInRange(storage) => lookbackRead.value = DefaultDays
    /\ (lastSet.outcome # "none" /\ ~WholeDaysInRange(lastSet.days))
         => lastSet.outcome = "rejected" /\ ~lastSet.wrote

\* C19 without the integer: getLookbackDays never rejects and yields a
\* number between 1 and 365, the stored value when that is one and the
\* default 21 otherwise; setLookbackDays rejects every value that is not a
\* number, is below 1 or is above 365, and then leaves the storage alone
C19_NumberInRange ==
    /\ pc = "done" =>
         /\ lookbackRead.outcome = "resolved"
         /\ lookbackRead.value.type = "number"
         /\ lookbackRead.value.val >= 1 * ValueScale
         /\ lookbackRead.value.val <= 365 * ValueScale
         /\ lookbackRead.value \in {storage, DefaultDays}
         /\ (storage.type # "number" \/ isNaN(storage.val)
               \/ storage.val < 1 * ValueScale \/ storage.val > 365 * ValueScale)
              => lookbackRead.value = DefaultDays
    /\ (lastSet.outcome # "none"
          /\ (lastSet.days.type # "number"
                \/ (~isNaN(lastSet.days.val)
                      /\ (lastSet.days.val < 1 * ValueScale
                            \/ lastSet.days.val > 365 * ValueScale))))
         => lastSet.outcome = "rejected" /\ ~lastSet.wrote
    /\ [][(lastSet'.outcome = "rejected" /\ settingsCalls' # settingsCalls)
            => storage' = storage]_vars

\* setLookbackDays stored one and a half days and getLookbackDays
\* returned them
C19_FractionRead ==
    /\ pc = "done"
    /\ lastSet = [days |-> JsNumber(15), outcome |-> "resolved", wrote |-> TRUE]
    /\ lookbackRead = [outcome |-> "resolved", value |-> JsNumber(15)]

\* setLookbackDays accepted NaN and wrote it to the storage
C19_NaNWritten ==
    /\ lastSet = [days |-> JsNumber(NaN), outcome |-> "resolved", wrote |-> TRUE]
    /\ storage = JsNumber(NaN)

(***************************************************************************)
(* data-processor: getOpenValueAtEndDate and getCompletedDataPoints, and   *)
(* calculateVelocity, on series that hold invalid points                   *)
(*                                                                         *)
(* A raw series holds up to MaxRawPoints points in any order; the date of  *)
(* a point is a tick or invalid, its value a number, NaN or Infinity.      *)
(* The three functions are called on the same series, startDate serving    *)
(* as the end date of getOpenValueAtEndDate.  An infinite value stands in  *)
(* the sums of calculateVelocity as the number PosInf.                     *)
(***************************************************************************)
MaxRawPoints == 3

RawDates == {1, 3, 5, InvalidDate}
RawValues == {1, 3, NaN, PosInf}
RawPoints == { [date |-> d, value |-> v] : d \in RawDates, v \in RawValues }

\* for (const point of sortedData) { if (date <= endTime) lastValue = value; else break; }
RECURSIVE OpenLoop(_, _, _)
OpenLoop(s, endTime, lastValue) ==
    IF s = <<>> THEN lastValue
    ELSE IF Head(s).date <= endTime
         THEN OpenLoop(Tail(s), endTime, Head(s).value)
         ELSE lastValue

getOpenValueAtEndDate(openData, endDate) ==
    IF Len(openData) = 0 THEN Null
    ELSE LET sortedData == SortByDate(SelectSeq(openData, IsValidPoint))
         IN  IF Len(sortedData) = 0 THEN Null
             ELSE Some(OpenLoop(sortedData, endDate, sortedData[Len(sortedData)].value))

getCompletedDataPoints(data, nowT) ==
    IF Len(data) = 0 THEN [first |-> Null, today |-> Null]
    ELSE LET sortedData == SortByDate(SelectSeq(data, IsValidPoint))
         IN  IF Len(sortedData) = 0 THEN [first |-> Null, today |-> Null]
             ELSE LET first == sortedData[1]
                      todayPoint == LatestLoop(sortedData, EndOfDay(nowT), Null)
                  IN  [first |-> Some(first),
                       today |-> IF IsNull(todayPoint) THEN Some(first) ELSE todayPoint]

InitProcessor ==
    /\ pc = "ready"
    /\ now = Today * TicksPerDay
    /\ \E k \in 0..MaxRawPoints : completedData \in [1..k -> RawPoints]
    /\ startDate \in {0, 3}
    /\ startValue = 0
    /\ lookbackDays \in 1..MaxLookback
    /\ velocityResult = NullVelocity
    /\ PredictionIdle
    /\ PathIdle
    /\ SvgIdle
    /\ RepeatIdle
    /\ HandoffIdle
    /\ PollIdle
    /\ AverageIdle
    /\ SettingsIdle
    /\ ProcessorIdle
    /\ LateIdle

CalculateVelocityOfRaw ==
    /\ pc = "ready"
    /\ velocityResult' = calculateVelocity(completedData, startDate, startValue,
                                           lookbackDays, now)
    /\ pc' = "calculated"
    /\ UNCHANGED <<now, completedData, startDate, startValue, lookbackDays, predictionVars,
                   pathVars, svgVars, extraVars>>

GetOpenValueAtEndDate ==
    /\ pc = "calculated"
    /\ openValue' = getOpenValueAtEndDate(completedData, startDate)
    /\ pc' = "opened"
    /\ UNCHANGED <<now, velocityVars, completedPoints, predictionVars, pathVars, svgVars,
                   repeatVars, handoffVars, pollVars, averageVars, settingsVars,
                   lateVars>>

GetCompletedDataPoints ==
    /\ pc = "opened"
    /\ completedPoints' = getCompletedDataPoints(completedData, now)
    /\ pc' = "done"
    /\ UNCHANGED <<now, velocityVars, openValue, predictionVars, pathVars, svgVars,
                   repeatVars, handoffVars, pollVars, averageVars, settingsVars,
                   lateVars>>

NextProcessor == CalculateVelocityOfRaw \/ GetOpenValueAtEndDate \/ GetCompletedDataPoints

SpecProcessor == InitProcessor /\ [][NextProcessor]_vars

\* the points the invariant of DataPoint admits: a valid date and a finite
\* value
Admitted(p) == ~isNaN(p.date) /\ IsFinite(p.value)
AdmittedData == SelectSeq(completedData, Admitted)

\* the points that are neither without a date nor without a value
NumberedData == SelectSeq(completedData, IsValidPoint)

\* C20 as stated: calculateVelocity, getOpenValueAtEndDate and
\* getCompletedDataPoints return what they return for the series without
\* the points whose date is invalid or whose value is not finite
C20_Original ==
    pc = "done" =>
        /\ velocityResult = calculateVelocity(AdmittedData, startDate, startValue,
                                              lookbackDays, now)
        /\ openValue = getOpenValueAtEndDate(AdmittedData, startDate)
        /\ completedPoints = getCompletedDataPoints(AdmittedData, now)

\* C20 for NaN only: the three functions return what they return for the
\* series without the points whose date is invalid or whose value is NaN,
\* and no such point is part of a result
C20_NaNDiscarded ==
    pc = "done" =>
        /\ velocityResult = calculateVelocity(NumberedData, startDate, startValue,
                                              lookbackDays, now)
        /\ openValue = getOpenValueAtEndDate(NumberedData, startDate)
        /\ completedPoints = getCompletedDataPoints(NumberedData, now)
        /\ ~IsNull(openValue) => ~isNaN(Val(openValue))
        /\ \A field \in {"first", "today"} :
             ~IsNull(completedPoints[field]) => IsValidPoint(Val(completedPoints[field]))
        /\ ~IsNull(velocityResult.periodEndValue)
             => ~isNaN(Val(velocityResult.periodEndValue))

\* a series of one valid point, one point without date and one point
\* without value: the valid point alone decides the open value
C20_InvalidIgnored ==
    /\ pc = "done"
    /\ Len(completedData) = 3
    /\ Len(NumberedData) = 1
    /\ \E i \in 1..3 : isNaN(completedData[i].date)
    /\ \E i \in 1..3 : isNaN(completedData[i].value) /\ ~isNaN(completedData[i].date)
    /\ openValue = Some(NumberedData[1].value)

\* an infinite value came back from all three functions
C20_InfiniteKept ==
    /\ pc = "done"
    /\ openValue = Some(PosInf)
    /\ completedPoints.today = Some([date |-> 3, value |-> PosInf])
    /\ velocityResult.periodEndValue = Some(PosInf)
    /\ ~IsNull(velocityResult.current)
    /\ \E i \in 1..Len(completedData) : completedData[i].value = 1

\* C20 for extraction: no series of a burnup result holds a point without
\* a valid date or without a finite value
C20_ExtractedAdmitted ==
    BurnupReturned =>
        /\ \A i \in 1..Len(Burnup.completedData) : Admitted(Burnup.completedData[i])
        /\ \A i \in 1..Len(Burnup.openData) : Admitted(Burnup.openData[i])

(***************************************************************************)
(* highcharts-waiter: waitForHighcharts                                    *)
(*                                                                         *)
(* The timers fire on time: the clock advances by CHECK_INTERVAL_MS from   *)
(* one run of check to the next.  The page may gain and lose the chart     *)
(* container at any moment.                                                *)
(***************************************************************************)
MAX_WAIT_TIME_MS == 30000
CHECK_INTERVAL_MS == 500

\* the check that goes on checking after it found the container
check_KeepsChecking(present, waited) ==
    IF present THEN [resolveWith |-> Some(TRUE), again |-> TRUE]
    ELSE IF waited >= MAX_WAIT_TIME_MS THEN [resolveWith |-> Some(FALSE), again |-> FALSE]
    ELSE [resolveWith |-> Null, again |-> TRUE]

\* check: what it resolves the promise with, and whether it sets the timer
check(present, waited) ==
    IF present THEN [resolveWith |-> Some(TRUE), again |-> FALSE]
    ELSE IF waited >= MAX_WAIT_TIME_MS THEN [resolveWith |-> Some(FALSE), again |-> FALSE]
    ELSE [resolveWith |-> Null, again |-> TRUE]

\* one run of check at the time waited
RunCheck(waited) ==
    LET step == check(containerPresent, waited)
    IN  /\ checkTimes' = checkTimes \cup {waited}
        /\ foundAtChecks' = IF containerPresent THEN foundAtChecks \cup {waited}
                            ELSE foundAtChecks
        /\ settleLog' = IF IsNull(step.resolveWith) THEN settleLog
                        ELSE Append(settleLog, Val(step.resolveWith))
        /\ checkPending' = step.again
        /\ pc' = IF step.again THEN "waiting" ELSE "done"

InitWaiter ==
    /\ pc = "ready"
    /\ now = 0
    /\ containerPresent \in BOOLEAN
    /\ waitedMs = 0
    /\ checkPending = FALSE
    /\ checkTimes = {}
    /\ foundAtChecks = {}
    /\ settleLog = <<>>
    /\ OtherThanWaiterIdle

\* waitForHighcharts(): the executor runs check at once
WaitForHighcharts ==
    /\ pc = "ready"
    /\ RunCheck(0)
    /\ UNCHANGED <<now, containerPresent, waitedMs, otherThanWaiter>>

\* the page gains or loses the chart container
ContainerChanges ==
    /\ pc \in {"ready", "waiting"}
    /\ containerPresent' = ~containerPresent
    /\ UNCHANGED <<pc, now, waitedMs, checkPending, checkTimes, foundAtChecks, settleLog,
                   otherThanWaiter>>

\* setTimeout(check, CHECK_INTERVAL_MS) fires
TimerCheck ==
    /\ checkPending
    /\ waitedMs' = waitedMs + CHECK_INTERVAL_MS
    /\ RunCheck(waitedMs + CHECK_INTERVAL_MS)
    /\ UNCHANGED <<now, containerPresent, otherThanWaiter>>

NextWaiter == WaitForHighcharts \/ ContainerChanges \/ TimerCheck

SpecWaiter ==
    InitWaiter /\ [][NextWaiter]_vars /\ WF_vars(WaitForHighcharts) /\ WF_vars(TimerCheck)

\* the times 0, 500, 1000, ... up to last
EveryInterval(last) ==
    { t \in 0..last : t % CHECK_INTERVAL_MS = 0 }

\* C21: waitForHighcharts resolves once and only once; with true at the
\* first check that finds the container, with false at the check made 30 s
\* after the call when no check found it; the checks are made at the call
\* and every 500 ms after it, and none is made after the promise resolved
C21_ResolvesOnce ==
    /\ [](/\ Len(settleLog) <= 1
          /\ pc # "ready" => checkTimes = EveryInterval(waitedMs)
          /\ settleLog = <<>> => foundAtChecks = {} /\ (pc = "waiting" => waitedMs < MAX_WAIT_TIME_MS)
          /\ settleLog = <<TRUE>> => foundAtChecks = {waitedMs}
          /\ settleLog = <<FALSE>> => foundAtChecks = {} /\ waitedMs = MAX_WAIT_TIME_MS)
    /\ [][settleLog # <<>> => checkTimes' = checkTimes /\ settleLog' = settleLog]_vars
    /\ <>(Len(settleLog) = 1)

\* the promise resolved with false after sixty-one checks that found nothing
C21_Witness ==
    /\ pc = "done"
    /\ settleLog = <<FALSE>>
    /\ Cardinality(checkTimes) = 61

\* the promise resolved with true at a later check, the container having
\* appeared after the call
C21_WitnessFound ==
    /\ pc = "done"
    /\ settleLog = <<TRUE>>
    /\ waitedMs = 3 * CHECK_INTERVAL_MS

(***************************************************************************)
(* Claims about the lookback window of calculateVelocity                   *)
(***************************************************************************)
SortedValid == SortByDate(SelectSeq(completedData, IsValidPoint))

\* the valid points dated within the lookback of the latest observation
LatestWindow ==
    { p \in ValidInput : /\ p.date >= LatestObserved.date - lookbackDays * TicksPerDay
                         /\ p.date <= LatestObserved.date }

\* the result for the window W: the windowed rate over the points of W when
\* W holds two points or more, the all-time rate otherwise
RateOver(W) ==
    LET inW(p) == p \in W
        points == SelectSeq(SortedValid, inW)
    IN  IF Len(points) >= 2
        THEN WindowedVelocity(SortedValid, points, startDate, startValue)
        ELSE AllTimeVelocity(LatestObserved, startDate, startValue)

\* C22 as stated: the windowed rate is taken over the points dated within
\* [latest-day - window, latest-day], latest-day being the date of the
\* latest observation, however long ago that observation was
C22_Original ==
    (pc = "done" /\ ValidInput # {}) => velocityResult = RateOver(LatestWindow)

\* C22 amended: the windowed rate is taken over the points dated within
\* [end of today - window, end of today]; the latest observation serves the
\* all-time rate only, which is returned when fewer than two points lie in
\* that window
C22_WindowEndsToday ==
    (pc = "done" /\ ValidInput # {}) => velocityResult = RateOver(WindowInput)

\* C22 witness: two observations lie within the lookback of the latest one,
\* but that one is so old that the window counted from today holds a single
\* point, and the all-time rate is returned
C22_Witness ==
    /\ pc = "done"
    /\ Cardinality(LatestWindow) >= 2
    /\ Cardinality(WindowInput) = 1
    /\ LatestObserved.date < TodayEndTick
    /\ velocityResult.periodStartValue = Some(startValue)
    /\ velocityResult # RateOver(LatestWindow)

\* a windowed rate over a window that reaches beyond the latest observation
C22_WitnessWindowed ==
    /\ pc = "done"
    /\ WindowedCase
    /\ LatestObserved.date < TodayEndTick
    /\ ~IsNull(velocityResult.current)

(***************************************************************************)
(* calculateVelocity read on a later day, so that several observations     *)
(* can lie before the lookback window                                      *)
(***************************************************************************)
LaterToday == 2

InitVelocityLater ==
    /\ pc = "ready"
    /\ now = LaterToday * TicksPerDay
    /\ completedData \in SeriesInputs
    /\ startDate \in Ticks
    /\ startValue \in StartValues
    /\ lookbackDays \in 1..MaxLookback
    /\ velocityResult = NullVelocity
    /\ PredictionIdle
    /\ PathIdle
    /\ SvgIdle
    /\ ExtraIdle

SpecVelocityLater == InitVelocityLater /\ [][NextVelocity]_vars

FirstInWindow == MinByDate(WindowInput)
BeforeWindow == { p \in ValidInput : p.date < FirstInWindow.date }
Clamped == FirstInWindow.date < startDate

\* C23 as stated: in the windowed case a period whose first point is dated
\* before the project start begins at the project start with the project
\* start value; otherwise it begins with the value of the most recent point
\* dated before the first in-window point, or with that point's own value
\* when no earlier point exists
C23_Original ==
    (pc = "done" /\ WindowedCase /\ ~IsNull(velocityResult.periodStartValue)) =>
        /\ Clamped => /\ velocityResult.periodStartDate = Some(startDate)
                      /\ velocityResult.periodStartValue = Some(startValue)
        /\ (~Clamped /\ BeforeWindow # {})
             => velocityResult.periodStartValue = Some(MaxByDate(BeforeWindow).value)
        /\ (~Clamped /\ BeforeWindow = {})
             => velocityResult.periodStartValue = Some(FirstInWindow.value)

\* C23 as the code has it: the value carried into the period is that of
\* the earliest point dated before the first in-window point
C23_EarliestCarried ==
    (pc = "done" /\ WindowedCase /\ ~IsNull(velocityResult.periodStartValue)) =>
        /\ Clamped => /\ velocityResult.periodStartDate = Some(startDate)
                      /\ velocityResult.periodStartValue = Some(startValue)
        /\ (~Clamped /\ BeforeWindow # {})
             => velocityResult.periodStartValue = Some(MinByDate(BeforeWindow).value)
        /\ (~Clamped /\ BeforeWindow = {})
             => velocityResult.periodStartValue = Some(FirstInWindow.value)

\* two points of different value lie before the window, and the period
\* starts with the value of the earlier one
C23_TwoBefore ==
    /\ pc = "done"
    /\ WindowedCase
    /\ ~Clamped
    /\ Cardinality(BeforeWindow) = 2
    /\ MinByDate(BeforeWindow).value # MaxByDate(BeforeWindow).value
    /\ velocityResult.periodStartValue = Some(MinByDate(BeforeWindow).value)

(***************************************************************************)
(* Claims about the binding of the series in a burnup result.  A cloud is  *)
(* a series group with a path, in the order of the markup; a legend match  *)
(* succeeds when the cloud at the index of the legend item holds points.   *)
(***************************************************************************)
Clouds ==
    SeriesLoop(Root.series, 0, PlotBoxOf(Root), extractDateRangeFromLabels(Root.xLabels, now),
               MathMin(YValues(Root)), MathMax(YValues(Root)), now, zoneEast)

\* the position of the cloud the legend names for the role, or 0
LegendCloud(role) ==
    LET hits == { i \in 1..Len(Root.legend) :
                    /\ Root.legend[i] # ""
                    /\ LegendRole(Root.legend[i]) = role
                    /\ i <= Len(Clouds) }
    IN  IF hits = {} THEN 0 ELSE CHOOSE i \in hits : \A j \in hits : j <= i

MatchSucceeded(role) ==
    LegendCloud(role) # 0 /\ Len(Clouds[LegendCloud(role)].points) > 0

FinalValue(k) ==
    IF Len(Clouds[k].points) > 0 THEN Clouds[k].points[Len(Clouds[k].points)].value ELSE 0

\* a binding: the cloud taken as completed and the points taken as open
Binding(k, open) ==
    [completedData |-> Clouds[k].points, openData |-> open,
     completedStartPixel |-> Clouds[k].startPixel,
     completedLastPixel |-> Clouds[k].lastPixel]

\* the binding by legend text; a role the legend leaves without points
\* takes the first cloud (completed) or stays empty (open)
ByLegend ==
    Binding(IF MatchSucceeded("completed") THEN LegendCloud("completed") ELSE 1,
            IF LegendCloud("open") # 0 THEN Clouds[LegendCloud("open")].points ELSE <<>>)

\* the binding by magnitude: of the first two clouds the one with the
\* larger final value is open
ByMagnitude ==
    IF Greater(FinalValue(1), FinalValue(2))
    THEN Binding(2, Clouds[1].points)
    ELSE Binding(1, Clouds[2].points)

\* the result reports the binding b, after the consistency correction
Reports(b) ==
    LET final == ConsistencySwap(ResolveTotals(GroundTruth, b), b)
    IN  /\ Burnup.completedData = final.completedData
        /\ Burnup.openData = final.openData
        /\ Burnup.completedStartPixel = b.completedStartPixel
        /\ Burnup.completedLastPixel = b.completedLastPixel

C24_WitnessMagnitude ==
    /\ BurnupReturned
    /\ Root.legend = <<>>
    /\ Len(Clouds) = 2
    /\ Greater(FinalValue(1), FinalValue(2))
    /\ Burnup.completedLastPixel = Clouds[2].lastPixel
    /\ Burnup.completedLastPixel # Clouds[1].lastPixel

\* the cloud k is the series of the pixels in the result
PixelsOf(k) ==
    /\ Burnup.completedStartPixel = Clouds[k].startPixel
    /\ Burnup.completedLastPixel = Clouds[k].lastPixel

\* C29 as stated: the two pixels of a burnup result are those of a series
\* whose points are returned as completedData
C29_Original ==
    (BurnupReturned /\ Len(Clouds) >= 1) =>
        \E k \in 1..Len(Clouds) : PixelsOf(k) /\ Burnup.completedData = Clouds[k].points

\* the pixels are those of the series bound as completed before the
\* consistency correction: its points are returned as completedData, or,
\* when the correction swapped the clouds, as openData
C29_PixelsOfBoundSeries ==
    (BurnupReturned /\ Len(Clouds) >= 1) =>
        \E k \in 1..Len(Clouds) :
            /\ PixelsOf(k)
            /\ Clouds[k].points \in {Burnup.completedData, Burnup.openData}

\* the correction swapped the clouds: the pixels are those of the series
\* returned as openData, and of no series returned as completedData
C29_SwappedPixels ==
    /\ BurnupReturned
    /\ Len(Clouds) = 2
    /\ Root.legend = <<"Open", "Completed">>
    /\ Burnup.completedData = Clouds[1].points
    /\ Burnup.openData = Clouds[2].points
    /\ PixelsOf(2)
    /\ ~PixelsOf(1)
    /\ Burnup.completedData # Burnup.openData

(***************************************************************************)
(* Claims about getOpenValueAtEndDate; startDate is its argument endDate   *)
(***************************************************************************)
\* of the positions in S the one holding the latest date, the last of them
\* in the order of the input when several hold that date
LatestPosition(S) ==
    CHOOSE i \in S : \A j \in S : \/ completedData[j].date < completedData[i].date
                                  \/ completedData[j].date = completedData[i].date /\ j <= i

\* the value the claim names, S being the positions of the valid points
OpenValueOver(S) ==
    LET onOrBefore == { i \in S : completedData[i].date <= startDate }
    IN  IF S = {} THEN Null
        ELSE IF onOrBefore # {} THEN Some(completedData[LatestPosition(onOrBefore)].value)
        ELSE Some(completedData[LatestPosition(S)].value)

AdmittedPositions == { i \in 1..Len(completedData) : Admitted(completedData[i]) }
NumberedPositions == { i \in 1..Len(completedData) : IsValidPoint(completedData[i]) }

\* C25 as stated: null without a valid point; otherwise the value of the
\* latest valid point dated on or before endDate, and the value of the most
\* recent valid point when endDate precedes them all; a point is valid with
\* a valid date and a finite value
C25_Original ==
    pc = "done" => openValue = OpenValueOver(AdmittedPositions)

\* C25 over the points the function keeps, those with a valid date and a
\* value that is not NaN
C25_OverKeptPoints ==
    pc = "done" => openValue = OpenValueOver(NumberedPositions)

\* endDate precedes two valid points of different value, and the value of
\* the later one is returned
C25_EndBeforeAll ==
    /\ pc = "done"
    /\ Cardinality(NumberedPositions) = 2
    /\ NumberedPositions = AdmittedPositions
    /\ \A i \in NumberedPositions : completedData[i].date > startDate
    /\ \E i, j \in NumberedPositions :
          /\ completedData[i].date < completedData[j].date
          /\ completedData[i].value # completedData[j].value
          /\ openValue = Some(completedData[j].value)

\* a single point of infinite value: it is returned, not null
C25_InfiniteReturned ==
    /\ pc = "done"
    /\ Len(completedData) = 1
    /\ AdmittedPositions = {}
    /\ openValue = Some(PosInf)

(***************************************************************************)
(* burnup/index: initializeBurnup from createStatsPanel on, recalculate,   *)
(* the storage listener and the ResizeObserver                             *)
(*                                                                         *)
(* The two settings are versions: a change of a setting stores the next    *)
(* version.  A call of recalculate reads the lookback days, then the       *)
(* target date, then (in updatePrediction) the lookback days again, and    *)
(* displays what it read.  The reads of the storage are answered in the    *)
(* order in which they were requested.  The fields of chartData, startDate *)
(* and startValue are the numbers of the extraction they came from: 0 for  *)
(* the first one, n for the n-th re-extraction.                            *)
(***************************************************************************)
MaxSettingChanges == 2
MaxResizes == 1

SettingNames == {"lookback", "target"}

\* recalculate(): a new run, waiting for getLookbackDays
StartRun(rs) == Append(rs, [stage |-> "lookback", lookback |-> 0, target |-> 0])

\* the run after the read it was waiting for was answered from stored
AfterRead(run, stored) ==
    IF run.stage = "lookback" THEN [run EXCEPT !.stage = "target", !.lookback = stored.lookback]
    ELSE IF run.stage = "target" THEN [run EXCEPT !.stage = "label", !.target = stored.target]
    ELSE [run EXCEPT !.stage = "finished"]

\* updatePrediction and drawOverlay: the display of a run, with the label
\* read last
Display(run, stored) ==
    Some([lookback |-> run.lookback, target |-> run.target, label |-> stored.lookback])

\* chartData without chartInfo, startDate and startValue after the first
\* extraction
FirstExtraction ==
    [total |-> 0, completed |-> 0, completedData |-> 0, openData |-> 0,
     completedStartPixel |-> 0, startDate |-> 0, startValue |-> 0]

AnswerKinds == {"null", "velocity", "burnupWithoutInfo", "burnup"}

\* what injectBridgeScript resolves with at the n-th re-extraction
FreshData(n, kind) ==
    IF kind = "null" THEN Null
    ELSE Some([chartType |-> IF kind = "velocity" THEN "velocity" ELSE "burnup",
               chartInfo |-> IF kind = "burnup" THEN Some(n) ELSE Null,
               total |-> n, completed |-> n, completedData |-> n, openData |-> n,
               completedStartPixel |-> n])

updateChartInfoAndRedraw_ReplacesData(info, fields, updatedData) ==
    IF /\ ~IsNull(updatedData)
       /\ Val(updatedData).chartType = "burnup"
       /\ ~IsNull(Val(updatedData).chartInfo)
    THEN [chartInfo |-> Val(Val(updatedData).chartInfo),
          fields |-> [fields EXCEPT !.total = Val(updatedData).total,
                                    !.completed = Val(updatedData).completed,
                                    !.completedData = Val(updatedData).completedData,
                                    !.openData = Val(updatedData).openData,
                                    !.completedStartPixel =
                                        Val(updatedData).completedStartPixel],
          recalculates |-> TRUE]
    ELSE [chartInfo |-> info, fields |-> fields, recalculates |-> FALSE]

\* updateChartInfoAndRedraw after its await: the new chartInfo, the other
\* fields, and whether recalculate is called
updateChartInfoAndRedraw(info, fields, updatedData) ==
    IF /\ ~IsNull(updatedData)
       /\ Val(updatedData).chartType = "burnup"
       /\ ~IsNull(Val(updatedData).chartInfo)
    THEN [chartInfo |-> Val(Val(updatedData).chartInfo), fields |-> fields,
          recalculates |-> TRUE]
    ELSE [chartInfo |-> info, fields |-> fields, recalculates |-> FALSE]

InitRecalc ==
    /\ pc = "ready"
    /\ now = 0
    /\ storedSettings = [lookback |-> 0, target |-> 0]
    /\ listenerOn = FALSE
    /\ runs = <<>>
    /\ readQueue = <<>>
    /\ shown = Null
    /\ changesMade = 0
    /\ changesHeard = 0
    /\ bridgePending = 0
    /\ resizesSeen = 0
    /\ chartInfoVersion = 0
    /\ chartFields = FirstExtraction
    /\ lastAnswer = [n |-> 0, kind |-> "none"]
    /\ OtherThanRecalcIdle

\* initializeBurnup: the panel with its settings form is created, then
\* await recalculate()
InitializeBurnup ==
    /\ pc = "ready"
    /\ runs' = StartRun(runs)
    /\ readQueue' = Append(readQueue, Len(runs) + 1)
    /\ pc' = "initializing"
    /\ UNCHANGED <<now, storedSettings, listenerOn, shown, changesMade, changesHeard,
                   bridgePending, resizesSeen, chartInfoVersion, chartFields,
                   lastAnswer, otherThanRecalc>>

\* a setting is saved (by the form of the panel or elsewhere); the listener,
\* when registered, calls recalculate
SettingChanges ==
    /\ pc \in {"initializing", "listening"}
    /\ changesMade < MaxSettingChanges
    /\ \E name \in SettingNames :
          storedSettings' = [storedSettings EXCEPT ![name] = @ + 1]
    /\ changesMade' = changesMade + 1
    /\ IF listenerOn
       THEN /\ runs' = StartRun(runs)
            /\ readQueue' = Append(readQueue, Len(runs) + 1)
            /\ changesHeard' = changesHeard + 1
       ELSE UNCHANGED <<runs, readQueue, changesHeard>>
    /\ UNCHANGED <<pc, now, listenerOn, shown, bridgePending, resizesSeen, chartInfoVersion,
                   chartFields, lastAnswer, otherThanRecalc>>

\* the storage answers the oldest read; a run that read the label displays
\* its result, and the first run returns to initializeBurnup, which
\* registers the listener and the observer
ReadAnswered ==
    /\ readQueue # <<>>
    /\ LET i == Head(readQueue)
           after == AfterRead(runs[i], storedSettings)
       IN  /\ runs' = [runs EXCEPT ![i] = after]
           /\ readQueue' = IF after.stage = "finished" THEN Tail(readQueue)
                           ELSE Append(Tail(readQueue), i)
           /\ shown' = IF after.stage = "finished" THEN Display(runs[i], storedSettings)
                       ELSE shown
           /\ listenerOn' = (listenerOn \/ (i = 1 /\ after.stage = "finished"))
           /\ pc' = IF i = 1 /\ after.stage = "finished" THEN "listening" ELSE pc
    /\ UNCHANGED <<now, storedSettings, changesMade, changesHeard, bridgePending, resizesSeen,
                   chartInfoVersion, chartFields, lastAnswer, otherThanRecalc>>

\* the observer reports a new width; after the debounce
\* updateChartInfoAndRedraw awaits the bridge
ChartResized ==
    /\ pc = "listening"
    /\ resizesSeen < MaxResizes
    /\ resizesSeen' = resizesSeen + 1
    /\ bridgePending' = bridgePending + 1
    /\ UNCHANGED <<pc, now, storedSettings, listenerOn, runs, readQueue, shown, changesMade,
                   changesHeard, chartInfoVersion, chartFields, lastAnswer, otherThanRecalc>>

\* the bridge answers the oldest re-extraction
BridgeAnswers ==
    /\ bridgePending > 0
    /\ bridgePending' = bridgePending - 1
    /\ \E kind \in AnswerKinds :
          LET n == resizesSeen - bridgePending + 1
              r == updateChartInfoAndRedraw(chartInfoVersion, chartFields, FreshData(n, kind))
          IN  /\ lastAnswer' = [n |-> n, kind |-> kind]
              /\ chartInfoVersion' = r.chartInfo
              /\ chartFields' = r.fields
              /\ IF r.recalculates
                 THEN /\ runs' = StartRun(runs)
                      /\ readQueue' = Append(readQueue, Len(runs) + 1)
                 ELSE UNCHANGED <<runs, readQueue>>
    /\ UNCHANGED <<pc, now, storedSettings, listenerOn, shown, changesMade, changesHeard,
                   resizesSeen, otherThanRecalc>>

NextRecalc ==
    InitializeBurnup \/ SettingChanges \/ ReadAnswered \/ ChartResized \/ BridgeAnswers

SpecRecalc == InitRecalc /\ [][NextRecalc]_vars

\* no recalculation is in flight and no re-extraction is awaited
Settled == pc = "listening" /\ readQueue = <<>> /\ bridgePending = 0

ShowsLatest ==
    /\ ~IsNull(shown)
    /\ Val(shown).lookback = storedSettings.lookback
    /\ Val(shown).target = storedSettings.target
    /\ Val(shown).label = storedSettings.lookback

\* C26 as stated: every change of a setting calls recalculate, and once
\* all recalculations and re-extractions have finished the display is the
\* one computed from the settings stored last
C26_Original ==
    /\ changesHeard = changesMade
    /\ Settled => ShowsLatest

\* C26 from the registration of the listener on: when every change was
\* made after initializeBurnup registered its listener, the settled display
\* is that of the settings stored last
C26_OnceListening ==
    (Settled /\ changesHeard = changesMade) => ShowsLatest

\* a setting changed while the first recalculation was under way: no
\* recalculation followed, and the settled display is that of the earlier
\* value
C26_StaleShown ==
    /\ Settled
    /\ changesMade = 1
    /\ changesHeard = 0
    /\ ~ShowsLatest
    /\ Val(shown).lookback < storedSettings.lookback

\* two changes after the registration, with a resize in between, and the
\* settled display is the latest
C26_LatestShown ==
    /\ Settled
    /\ changesHeard = MaxSettingChanges
    /\ resizesSeen = 1
    /\ chartInfoVersion = 1
    /\ ShowsLatest

\* C28: a re-extraction leaves total, completed, completedData, openData,
\* the start pixel, startDate and startValue as the first extraction gave
\* them; a burnup answer with chartInfo replaces chartInfo by the new one,
\* and any other answer changes nothing: neither chartData, nor the
\* recalculations, nor the display
C28_OnlyChartInfo ==
    [][bridgePending' < bridgePending =>
          /\ chartFields' = chartFields
          /\ chartFields' = FirstExtraction
          /\ lastAnswer'.kind = "burnup" => chartInfoVersion' = lastAnswer'.n
          /\ lastAnswer'.kind # "burnup" =>
                 UNCHANGED <<chartInfoVersion, runs, readQueue, shown, storedSettings,
                             listenerOn>>]_vars

\* a re-extraction answered with a burnup result and chartInfo: chartInfo is
\* that of the re-extraction, the other fields those of the first
C28_Witness ==
    /\ lastAnswer.kind = "burnup"
    /\ lastAnswer.n = 1
    /\ chartInfoVersion = 1
    /\ chartFields = FirstExtraction

\* a re-extraction answered without chartInfo: chartInfo is still that of
\* the first extraction
C28_WitnessDropped ==
    /\ lastAnswer.kind = "burnupWithoutInfo"
    /\ resizesSeen = 1
    /\ bridgePending = 0
    /\ chartInfoVersion = 0

(***************************************************************************)
(* content/index: main, initialize and the MutationObserver for SPA        *)
(* navigation                                                              *)
(*                                                                         *)
(* URLs are numbered in the order the page visits them.  A run of          *)
(* initialize is [url, stage]: the URL of the page when it started and     *)
(* the await it is at.                                                     *)
(***************************************************************************)
MaxUrlChanges == 2
ChartTypes == {"burnup", "velocity", "unknown"}

\* initialize() up to its first await: the guard, the flag, the page test
\* and the placeholder
initialize(initialized, rs, url, insightsPage, placeholder) ==
    IF initialized
    THEN [isInitialized |-> initialized, initRuns |-> rs, placeholderShown |-> placeholder]
    ELSE IF ~insightsPage
    THEN [isInitialized |-> TRUE,
          initRuns |-> Append(rs, [url |-> url, stage |-> "finished"]),
          placeholderShown |-> placeholder]
    ELSE [isInitialized |-> TRUE,
          initRuns |-> Append(rs, [url |-> url, stage |-> "waitForHighcharts"]),
          placeholderShown |-> TRUE]

CallInitialize ==
    \E insightsPage \in BOOLEAN :
        LET r == initialize(isInitialized, initRuns, pageUrl, insightsPage, placeholderShown)
        IN  /\ isInitialized' = r.isInitialized
            /\ initRuns' = r.initRuns
            /\ placeholderShown' = r.placeholderShown

InProgress == { i \in DOMAIN initRuns : initRuns[i].stage # "finished" }

InitContent ==
    /\ pc = "ready"
    /\ now = 0
    /\ pageUrl = 0
    /\ lastUrl = 0
    /\ isInitialized = FALSE
    /\ loadPending = FALSE
    /\ initTimers = 0
    /\ initRuns = <<>>
    /\ placeholderShown = FALSE
    /\ panelOf = Null
    /\ creations = {}
    /\ OtherThanContentIdle

\* main(): initialize at once when the document is complete, else on load;
\* the observer is installed
Main ==
    /\ pc = "ready"
    /\ pc' = "observing"
    /\ \E complete \in BOOLEAN :
          IF complete
          THEN CallInitialize /\ loadPending' = FALSE
          ELSE loadPending' = TRUE /\ UNCHANGED <<isInitialized, initRuns, placeholderShown>>
    /\ UNCHANGED <<now, pageUrl, lastUrl, initTimers, panelOf, creations, otherThanContent>>

\* the load event
LoadFires ==
    /\ pc = "observing"
    /\ loadPending
    /\ loadPending' = FALSE
    /\ CallInitialize
    /\ UNCHANGED <<pc, now, pageUrl, lastUrl, initTimers, panelOf, creations, otherThanContent>>

\* SPA navigation: the page has a new URL
Navigate ==
    /\ pc = "observing"
    /\ pageUrl < MaxUrlChanges
    /\ pageUrl' = pageUrl + 1
    /\ UNCHANGED <<pc, now, lastUrl, isInitialized, loadPending, initTimers, initRuns,
                   placeholderShown, panelOf, creations, otherThanContent>>

\* the MutationObserver callback with a changed href: the flag is reset,
\* panels, overlay and placeholder are removed, initialize is scheduled
UrlChangeObserved ==
    /\ pc = "observing"
    /\ pageUrl # lastUrl
    /\ lastUrl' = pageUrl
    /\ isInitialized' = FALSE
    /\ panelOf' = Null
    /\ placeholderShown' = FALSE
    /\ initTimers' = initTimers + 1
    /\ UNCHANGED <<pc, now, pageUrl, loadPending, initRuns, creations, otherThanContent>>

\* setTimeout(initialize, 300) fires
TimerInitialize ==
    /\ initTimers > 0
    /\ initTimers' = initTimers - 1
    /\ CallInitialize
    /\ UNCHANGED <<pc, now, pageUrl, lastUrl, loadPending, panelOf, creations, otherThanContent>>

\* an await of a run of initialize returns: waitForHighcharts with found or
\* not, waitForChartTypeDetection, then initializeBurnup or
\* initializeVelocity, which puts the panel in the page
RunContinues ==
    \E i \in InProgress :
        LET run == initRuns[i]
        IN  \/ /\ run.stage = "waitForHighcharts"
               /\ \E found \in BOOLEAN :
                     IF found
                     THEN /\ initRuns' = [initRuns EXCEPT ![i].stage = "detectChartType"]
                          /\ UNCHANGED placeholderShown
                     ELSE /\ initRuns' = [initRuns EXCEPT ![i].stage = "finished"]
                          /\ placeholderShown' = FALSE
               /\ UNCHANGED <<panelOf, creations>>
            \/ /\ run.stage = "detectChartType"
               /\ \E detected \in ChartTypes :
                     /\ initRuns' = [initRuns EXCEPT ![i].stage = "initializeChart"]
                     /\ placeholderShown' = IF detected = "unknown" THEN FALSE
                                            ELSE placeholderShown
               /\ UNCHANGED <<panelOf, creations>>
            \/ /\ run.stage = "initializeChart"
               /\ initRuns' = [initRuns EXCEPT ![i].stage = "finished"]
               /\ placeholderShown' = FALSE
               /\ panelOf' = Some(i)
               /\ creations' = creations \cup {[run |-> i, url |-> run.url, lastUrl |-> lastUrl]}
    /\ UNCHANGED <<pc, now, pageUrl, lastUrl, isInitialized, loadPending, initTimers,
                   otherThanContent>>

NextContent ==
    Main \/ LoadFires \/ Navigate \/ UrlChangeObserved \/ TimerInitialize \/ RunContinues

SpecContent == InitContent /\ [][NextContent]_vars

\* C27 as stated: at most one run of initialize is in progress, no URL is
\* initialized twice, and no panel is created by a run started for a URL
\* earlier than the one the last cleanup was performed for
C27_Original ==
    /\ Cardinality(InProgress) <= 1
    /\ \A i, j \in DOMAIN initRuns : initRuns[i].url = initRuns[j].url => i = j
    /\ \A c \in creations : c.url >= c.lastUrl

\* the load event came after the navigation and before the observer saw it:
\* a run was started for URL 1 by the load event, and another by the timer
\* of the cleanup for URL 1
C27_SameUrlTwice ==
    /\ Len(initRuns) = 2
    /\ initRuns[1].url = 1
    /\ initRuns[2].url = 1
    /\ lastUrl = 1

\* two runs of initialize in progress at once
C27_TwoInProgress ==
    Cardinality(InProgress) = 2

\* the panel in the page was created, after the cleanup for URL 1, by the
\* run started for URL 0
C27_StalePanel ==
    /\ ~IsNull(panelOf)
    /\ initRuns[Val(panelOf)].url = 0
    /\ lastUrl = 1
    /\ \E c \in creations : c.run = Val(panelOf) /\ c.url < c.lastUrl

(***************************************************************************)
(* velocity/stats-panel: createVelocityStatsPanel, the checkbox of each    *)
(* row and the select-all checkbox                                         *)
(*                                                                         *)
(* Row i of the table is the row of currentIterations[i]; the order in     *)
(* which the table shows the rows plays no part.                           *)
(***************************************************************************)
MaxToggles == 2
DEFAULT_ITERATION_COUNT == 3

StaleName == "Sprint 0"
PanelIterationPool == [name : NamePool, estimate : {5}]
SavedNamePool == NamePool \cup {StaleName}

\* data.iterations.map(iter => iter.name)
NamesOf(iters) == [i \in 1..Len(iters) |-> iters[i].name]

\* allIterations.slice(-count)
getDefaultSelectedIterations(allIterations, count) ==
    IF Len(allIterations) <= count THEN allIterations
    ELSE SubSeq(allIterations, Len(allIterations) - count + 1, Len(allIterations))

\* createVelocityStatsPanel: the saved selection restricted to the current
\* names when one of them is current, else the default selection
InitialSelection(saved, iterationNames) ==
    LET current(name) == Includes(iterationNames, name)
    IN  IF Len(saved) > 0 /\ \E j \in 1..Len(saved) : current(saved[j])
        THEN SelectSeq(saved, current)
        ELSE getDefaultSelectedIterations(iterationNames, DEFAULT_ITERATION_COUNT)

\* renderIterationsTable: a row is rendered checked when its name is selected
renderIterationsTable(iters, names) ==
    [i \in 1..Len(iters) |-> Includes(names, iters[i].name)]

updateSelectAllCheckbox(totalCount, selectedCount) ==
    IF selectedCount = 0 THEN [checked |-> FALSE, indeterminate |-> FALSE]
    ELSE IF selectedCount = totalCount THEN [checked |-> TRUE, indeterminate |-> FALSE]
    ELSE [checked |-> FALSE, indeterminate |-> TRUE]

\* handleIterationCheckboxChange: the selection after the checkbox of the
\* name became checked or unchecked
handleIterationCheckboxChange(names, iterationName, checked) ==
    IF checked
    THEN IF Includes(names, iterationName) THEN names ELSE Append(names, iterationName)
    ELSE LET other(name) == name # iterationName IN SelectSeq(names, other)

InitPanel ==
    /\ pc = "ready"
    /\ now = 0
    /\ currentIterations = <<>>
    /\ currentSelectedNames = <<>>
    /\ averageResult = NoAverage
    /\ rowChecked = <<>>
    /\ selectAllBox = [checked |-> FALSE, indeterminate |-> FALSE]
    /\ \E k \in 0..MaxSelected : savedSelections \in [1..k -> SavedNamePool]
    /\ togglesDone = 0
    /\ OtherThanPanelIdle

CreateVelocityStatsPanel ==
    /\ pc = "ready"
    /\ \E k \in 0..MaxIterations : \E iters \in [1..k -> PanelIterationPool] :
          LET selection == InitialSelection(savedSelections, NamesOf(iters))
          IN  /\ currentIterations' = iters
              /\ currentSelectedNames' = selection
              /\ rowChecked' = renderIterationsTable(iters, selection)
              /\ averageResult' = calculateAverageVelocity(iters, selection)
              /\ selectAllBox' = updateSelectAllCheckbox(Len(iters), Len(selection))
    /\ pc' = "shown"
    /\ UNCHANGED <<now, savedSelections, togglesDone, otherThanPanel>>

\* the change event of the checkbox of row r; setSelectedIterations may
\* reject, and the handler then ends before the displays are updated
RowCheckboxChanges ==
    /\ pc = "shown"
    /\ togglesDone < MaxToggles
    /\ togglesDone' = togglesDone + 1
    /\ \E r \in DOMAIN rowChecked : \E saveFails \in BOOLEAN :
          LET selection == handleIterationCheckboxChange(currentSelectedNames,
                                                         currentIterations[r].name,
                                                         ~rowChecked[r])
          IN  /\ rowChecked' = [rowChecked EXCEPT ![r] = ~rowChecked[r]]
              /\ currentSelectedNames' = selection
              /\ IF saveFails
                 THEN UNCHANGED <<savedSelections, averageResult, selectAllBox>>
                 ELSE /\ savedSelections' = selection
                      /\ averageResult' = calculateAverageVelocity(currentIterations,
                                                                   selection)
                      /\ selectAllBox' = updateSelectAllCheckbox(Len(currentIterations),
                                                                 Len(selection))
    /\ UNCHANGED <<pc, now, currentIterations, otherThanPanel>>

\* the change event of the select-all checkbox: a click checks a box that
\* was unchecked or indeterminate and unchecks a checked one
SelectAllChanges ==
    /\ pc = "shown"
    /\ togglesDone < MaxToggles
    /\ togglesDone' = togglesDone + 1
    /\ \E saveFails \in BOOLEAN :
          LET checked == ~selectAllBox.checked
              selection == IF checked THEN NamesOf(currentIterations) ELSE <<>>
          IN  /\ selectAllBox' = [checked |-> checked, indeterminate |-> FALSE]
              /\ currentSelectedNames' = selection
              /\ rowChecked' = [i \in DOMAIN rowChecked |-> checked]
              /\ IF saveFails
                 THEN UNCHANGED <<savedSelections, averageResult>>
                 ELSE /\ savedSelections' = selection
                      /\ averageResult' = calculateAverageVelocity(currentIterations,
                                                                   selection)
    /\ UNCHANGED <<pc, now, currentIterations, otherThanPanel>>

NextPanel == CreateVelocityStatsPanel \/ RowCheckboxChanges \/ SelectAllChanges

SpecPanel == InitPanel /\ [][NextPanel]_vars

CheckedAsSelected ==
    \A r \in DOMAIN rowChecked :
        rowChecked[r] <=> Includes(currentSelectedNames, currentIterations[r].name)

OnlyCurrentNames ==
    \A j \in 1..Len(currentSelectedNames) :
        Includes(NamesOf(currentIterations), currentSelectedNames[j])

DistinctNames ==
    \A i, j \in 1..Len(currentIterations) :
        currentIterations[i].name = currentIterations[j].name => i = j

\* C30 as stated: in the panel a row is checked exactly when its name is in
\* the selection, also when names repeat, and the selection holds only
\* names of current iterations
C30_Original ==
    pc = "shown" => CheckedAsSelected /\ OnlyCurrentNames

\* C30 for iterations with pairwise different names; the selection holds
\* only current names whatever the names are
C30_WhenNamesDiffer ==
    pc = "shown" => /\ OnlyCurrentNames
                    /\ DistinctNames => CheckedAsSelected

\* two rows of the same name, the first checked by a click, the second
\* still unchecked although its name is selected
C30_DuplicateUnchecked ==
    /\ pc = "shown"
    /\ Len(currentIterations) = 2
    /\ currentIterations[1].name = currentIterations[2].name
    /\ togglesDone = 2
    /\ rowChecked = <<TRUE, FALSE>>
    /\ Includes(currentSelectedNames, currentIterations[2].name)

\* names that differ, toggled by row and by select-all: checked as selected
C30_DistinctToggled ==
    /\ pc = "shown"
    /\ Len(currentIterations) = 3
    /\ DistinctNames
    /\ togglesDone = 2
    /\ rowChecked = <<TRUE, FALSE, TRUE>>
    /\ CheckedAsSelected

====
